---- MODULE Spec2Model ----
(***************************************************************************)
(* Multi-user blogging application: the authentication / authorization     *)
(* core of the backend (token issuer, auth middleware `protect`, the blog  *)
(* mutation handlers with their ownership check, the User schema with its  *)
(* password hashing, the account service, the error handlers) and the      *)
(* client session.                                                         *)
(*                                                                         *)
(* One request is one action: the Express pipeline of a route (protect,    *)
(* then the controller, then the error handler) runs inside the action.    *)
(* `last` records the most recent request and its outcome, `probe` the     *)
(* most recent direct call of the hasher or of the error path.             *)
(***************************************************************************)
EXTENDS Integers, Sequences, FiniteSets, TLC

\* ------------------------------------------------------------------ bounds
MaxUsers    == 2      \* account ids are 1..MaxUsers
MaxBlogs    == 1      \* blog ids are 1..MaxBlogs
MaxTokens   == 2      \* tokens issued in one behaviour
MaxTime     == 45     \* the clock (in days) stops here
DaysPerTick == 20     \* days that pass in one clock step

\* ------------------------------------------------------- program constants
ExpiresIn  == 30                  \* expiresIn: "30d", counted in days
JWT_SECRET == "JWT_SECRET"        \* process.env.JWT_SECRET
OtherSecret == "another-secret"   \* any key that is not the server's

Undefined == "<undefined>"        \* JavaScript undefined
Truthy(x) == x \notin {Undefined, ""}

UserIds == 1..MaxUsers
BlogIds == 1..MaxBlogs
InvalidId == 0                    \* an :id that does not cast to an ObjectId

VARIABLES
    users,          \* User collection: id -> account document or NoUser
    userCount,      \* ids handed out so far (ids are never reused)
    blogs,          \* Blog collection: id -> blog document or NoBlog
    blogCount,      \* blog ids handed out so far
    creator,        \* history: id of the account whose request created the blog
    issued,         \* history: every token generateToken has returned
    now,            \* wall clock, in days
    session,        \* client: token held in localStorage / axios defaults
    forwardsRejections, \* the framework passes a rejected middleware promise to the error handler
    listening,      \* the HTTP server accepts requests
    last,           \* the most recent request and its outcome
    probe,          \* the most recent direct call of a library function and its result
    browser,        \* client: AuthProvider state, localStorage, axios defaults, router
    home,           \* client: HomePage filters, page, fetches in flight, list shown
    running         \* server: update and delete handlers between their awaits

vars == <<users, userCount, blogs, blogCount, creator, issued, now, session,
          forwardsRejections, listening, last, probe, browser, home, running>>

\* the server's state, which no step of the client changes
server == <<users, userCount, blogs, blogCount, creator, issued, now, session,
            forwardsRejections, listening, last, running>>

\* ------------------------------------------------------------------- data
NoUser == [_id |-> 0, name |-> "", email |-> "", password |-> <<>>]
NoBlog == [title |-> "", category |-> "", content |-> "", image |-> "",
           userId |-> 0, authorName |-> ""]

NoSig   == [id |-> 0, iat |-> 0, exp |-> 0, key |-> "", bit |-> 0]
NoToken == [parts |-> 0, id |-> 0, iat |-> 0, exp |-> 0, sig |-> NoSig]
Garbage == [parts |-> 1, id |-> 0, iat |-> 0, exp |-> 0, sig |-> NoSig]

NoAuthorization == [present |-> FALSE, prefix |-> "", credential |-> NoToken]

\* request bodies: the fields the handlers read, and two they do not
Bodies ==
    { [title |-> "T1", category |-> "Tech", content |-> "c", image |-> Undefined,
       userId |-> 1, authorName |-> ""],
      [title |-> "T2", category |-> "Tech", content |-> "c", image |-> "http://x/i.png",
       userId |-> 2, authorName |-> "Mallory"],
      [title |-> "", category |-> "Tech", content |-> "c", image |-> "not a url",
       userId |-> 0, authorName |-> ""] }
NoBody == [title |-> "", category |-> "", content |-> "", image |-> Undefined,
           userId |-> 0, authorName |-> ""]

\* registration inputs and login inputs
Profiles ==
    { [name |-> "Ann", email |-> "a@x.com", password |-> "secret1"],
      [name |-> "Bob", email |-> "b@x.com", password |-> "secret2"] }
Emails    == {"a@x.com", "b@x.com"}
Passwords == {"secret1", "secret2"}
Salts     == {"s1"}

\* ------------------------------------------------------------ Token Codec
\* jwt.sign(payload, key, {expiresIn}): HMAC over header and payload
jwtSign(id, t, key) ==
    [parts |-> 3, id |-> id, iat |-> t, exp |-> t + ExpiresIn,
     sig |-> [id |-> id, iat |-> t, exp |-> t + ExpiresIn, key |-> key, bit |-> 0]]

\* generateToken whose payload misses the id field protect reads
generateToken_NoId(userId, t) == jwtSign(0, t, JWT_SECRET)

generateToken(userId, t) == jwtSign(userId, t, JWT_SECRET)

\* jwt.verify with ignoreExpiration
jwtVerify_IgnoresExpiry(token, key, t) ==
    IF token = NoToken
      THEN [ok |-> FALSE, id |-> 0, error |-> "jwt must be provided"]
    ELSE IF token.parts # 3
      THEN [ok |-> FALSE, id |-> 0, error |-> "jwt malformed"]
    ELSE IF token.sig # [id |-> token.id, iat |-> token.iat, exp |-> token.exp,
                         key |-> key, bit |-> 0]
      THEN [ok |-> FALSE, id |-> 0, error |-> "invalid signature"]
    ELSE [ok |-> TRUE, id |-> token.id, error |-> ""]

\* jwt.decode in place of jwt.verify: the signature is not checked
jwtVerify_DecodeOnly(token, key, t) ==
    IF token = NoToken
      THEN [ok |-> FALSE, id |-> 0, error |-> "jwt must be provided"]
    ELSE IF token.parts # 3
      THEN [ok |-> FALSE, id |-> 0, error |-> "jwt malformed"]
    ELSE IF t >= token.exp
      THEN [ok |-> FALSE, id |-> 0, error |-> "jwt expired"]
    ELSE [ok |-> TRUE, id |-> token.id, error |-> ""]

\* verification that also turns down every token but the newest of its account
jwtVerify_OnlyNewest(token, key, t) ==
    IF token = NoToken
      THEN [ok |-> FALSE, id |-> 0, error |-> "jwt must be provided"]
    ELSE IF token.parts # 3
      THEN [ok |-> FALSE, id |-> 0, error |-> "jwt malformed"]
    ELSE IF token.sig # [id |-> token.id, iat |-> token.iat, exp |-> token.exp,
                         key |-> key, bit |-> 0]
      THEN [ok |-> FALSE, id |-> 0, error |-> "invalid signature"]
    ELSE IF t >= token.exp
      THEN [ok |-> FALSE, id |-> 0, error |-> "jwt expired"]
    ELSE IF \E newer \in issued : newer.id = token.id /\ newer.iat > token.iat
      THEN [ok |-> FALSE, id |-> 0, error |-> "token revoked"]
    ELSE [ok |-> TRUE, id |-> token.id, error |-> ""]

\* jwt.verify(token, key) at clock time t: the decoded payload or the error thrown
jwtVerify(token, key, t) ==
    IF token = NoToken
      THEN [ok |-> FALSE, id |-> 0, error |-> "jwt must be provided"]
    ELSE IF token.parts # 3
      THEN [ok |-> FALSE, id |-> 0, error |-> "jwt malformed"]
    ELSE IF token.sig # [id |-> token.id, iat |-> token.iat, exp |-> token.exp,
                         key |-> key, bit |-> 0]
      THEN [ok |-> FALSE, id |-> 0, error |-> "invalid signature"]
    ELSE IF t >= token.exp
      THEN [ok |-> FALSE, id |-> 0, error |-> "jwt expired"]
    ELSE [ok |-> TRUE, id |-> token.id, error |-> ""]

\* what a client without the server secret can make out of a token it holds
FlipBit(tok)        == [tok EXCEPT !.sig.bit = 1 - @]
SwapSubject(tok, u) == [tok EXCEPT !.id = u]

\* ------------------------------------------------------------ User model
\* the query with the password field selected: findById(id).select("+password")
FindUserById_SelectsPassword(id) ==
    IF id \in UserIds /\ users[id] # NoUser THEN users[id] ELSE NoUser

\* User.findById(id).select("-password")
FindUserById(id) ==
    IF id \in UserIds /\ users[id] # NoUser
      THEN [users[id] EXCEPT !.password = <<>>]
      ELSE NoUser

\* ------------------------------------------------------- auth middleware
\* protect without the check that the account was found
protect_NoUserCheck(header) ==
    IF header.present /\ header.prefix = "Bearer"
      THEN LET token   == header.credential
               decoded == jwtVerify(token, JWT_SECRET, now)
               user    == FindUserById(decoded.id)
           IN  IF ~decoded.ok
                 THEN [next |-> FALSE, user |-> NoUser, status |-> 401,
                       error |-> "Not authorized, token failed or expired",
                       log |-> decoded.error]
               ELSE [next |-> TRUE, user |-> user, status |-> 200,
                     error |-> "", log |-> ""]
      ELSE [next |-> FALSE, user |-> NoUser, status |-> 401,
            error |-> "Not authorized, no token provided", log |-> ""]

\* protect that rethrows the caught error instead of the generic one
protect_EchoesReason(header) ==
    IF header.present /\ header.prefix = "Bearer"
      THEN LET token   == header.credential
               decoded == jwtVerify(token, JWT_SECRET, now)
               user    == FindUserById(decoded.id)
           IN  IF ~decoded.ok
                 THEN [next |-> FALSE, user |-> NoUser, status |-> 401,
                       error |-> decoded.error, log |-> decoded.error]
               ELSE IF user = NoUser
                 THEN [next |-> FALSE, user |-> NoUser, status |-> 401,
                       error |-> "Not authorized, user not found",
                       log |-> "Not authorized, user not found"]
               ELSE [next |-> TRUE, user |-> user, status |-> 200,
                     error |-> "", log |-> ""]
      ELSE [next |-> FALSE, user |-> NoUser, status |-> 401,
            error |-> "Not authorized, no token provided", log |-> ""]

\* protect(req, res, next): next |-> the route handler is called; otherwise
\* the promise rejects with Error(error) after res.status(status)
protect(header) ==
    IF header.present /\ header.prefix = "Bearer"
      THEN LET token   == header.credential
               decoded == jwtVerify(token, JWT_SECRET, now)
               user    == FindUserById(decoded.id)
           IN  IF ~decoded.ok
                 THEN [next |-> FALSE, user |-> NoUser, status |-> 401,
                       error |-> "Not authorized, token failed or expired",
                       log |-> decoded.error]
               ELSE IF user = NoUser
                 THEN [next |-> FALSE, user |-> NoUser, status |-> 401,
                       error |-> "Not authorized, token failed or expired",
                       log |-> "Not authorized, user not found"]
               ELSE [next |-> TRUE, user |-> user, status |-> 200,
                     error |-> "", log |-> ""]
      ELSE [next |-> FALSE, user |-> NoUser, status |-> 401,
            error |-> "Not authorized, no token provided", log |-> ""]

\* ------------------------------------------------------------ Blog model
Trim(s) == IF s = " " THEN "" ELSE s

\* image: match /^(ftp|http|https):\/\/[^ "]+$/ (skipped for the empty default)
ValidImage(img) == img \in {"", "http://x/i.png"}

\* schema validation run by blog.save()
BlogValidates(doc) ==
    /\ doc.title # "" /\ doc.category # "" /\ doc.content # ""
    /\ doc.authorName # "" /\ doc.userId # 0
    /\ ValidImage(doc.image)

\* Blog.findById(id)
FindBlogById(id) == IF id \in BlogIds THEN blogs[id] ELSE NoBlog

\* ------------------------------------------------------- blog controller
\* each handler yields the response status and the message of the JSON body;
\* createBlog the document it saved (stored under a fresh id), updateBlog and
\* deleteBlog the Blog collection they leave behind
\* createBlog that spreads the request body into the document
createBlog_TrustsBody(user, body) ==
    IF ~(Truthy(body.title) /\ Truthy(body.category) /\ Truthy(body.content))
      THEN [status |-> 400, doc |-> NoBlog,
            message |-> "Title, category, and content are required fields."]
    ELSE IF user = NoUser \/ user._id = 0
      THEN [status |-> 401, doc |-> NoBlog,
            message |-> "User not authenticated or user data incomplete."]
    ELSE LET doc == [title |-> Trim(body.title), category |-> Trim(body.category),
                     content |-> body.content,
                     image |-> IF Truthy(body.image) THEN body.image ELSE "",
                     userId |-> IF body.userId # 0 THEN body.userId ELSE user._id,
                     authorName |-> IF Truthy(body.authorName) THEN body.authorName
                                    ELSE user.name]
         IN  IF BlogValidates(doc)
               THEN [status |-> 201, doc |-> doc, message |-> ""]
               ELSE [status |-> 400, doc |-> NoBlog,
                     message |-> "Blog validation failed"]

createBlog(user, body) ==
    IF ~(Truthy(body.title) /\ Truthy(body.category) /\ Truthy(body.content))
      THEN [status |-> 400, doc |-> NoBlog,
            message |-> "Title, category, and content are required fields."]
    ELSE IF user = NoUser \/ user._id = 0
      THEN [status |-> 401, doc |-> NoBlog,
            message |-> "User not authenticated or user data incomplete."]
    ELSE LET doc == [title |-> Trim(body.title), category |-> Trim(body.category),
                     content |-> body.content,
                     image |-> IF Truthy(body.image) THEN body.image ELSE "",
                     userId |-> user._id, authorName |-> user.name]
         IN  IF BlogValidates(doc)
               THEN [status |-> 201, doc |-> doc, message |-> ""]
               ELSE [status |-> 400, doc |-> NoBlog,
                     message |-> "Blog validation failed"]

\* updateBlog without the ownership comparison
updateBlog_NoOwnerCheck(user, id, body) ==
    IF id = InvalidId
      THEN [status |-> 400, blogs |-> blogs, message |-> "Invalid blog post ID format"]
    ELSE LET blog == FindBlogById(id) IN
    IF blog = NoBlog
      THEN [status |-> 404, blogs |-> blogs, message |-> "Blog post not found"]
    ELSE LET doc == [blog EXCEPT
                       !.title    = Trim(IF Truthy(body.title) THEN body.title ELSE @),
                       !.category = Trim(IF Truthy(body.category) THEN body.category ELSE @),
                       !.content  = IF Truthy(body.content) THEN body.content ELSE @,
                       !.image    = IF body.image # Undefined THEN body.image ELSE @]
         IN  IF BlogValidates(doc)
               THEN [status |-> 200, message |-> "",
                     blogs |-> [blogs EXCEPT ![id] = doc]]
               ELSE [status |-> 400, blogs |-> blogs,
                     message |-> "Blog validation failed"]

\* updateBlog that copies every field of the request body onto the document
updateBlog_AssignsBody(user, id, body) ==
    IF id = InvalidId
      THEN [status |-> 400, blogs |-> blogs, message |-> "Invalid blog post ID format"]
    ELSE LET blog == FindBlogById(id) IN
    IF blog = NoBlog
      THEN [status |-> 404, blogs |-> blogs, message |-> "Blog post not found"]
    ELSE IF user = NoUser \/ blog.userId # user._id
      THEN [status |-> 403, blogs |-> blogs,
            message |-> "User not authorized to update this blog post"]
    ELSE LET doc == [blog EXCEPT
                       !.title    = Trim(IF Truthy(body.title) THEN body.title ELSE @),
                       !.category = Trim(IF Truthy(body.category) THEN body.category ELSE @),
                       !.content  = IF Truthy(body.content) THEN body.content ELSE @,
                       !.image    = IF body.image # Undefined THEN body.image ELSE @,
                       !.userId   = IF body.userId # 0 THEN body.userId ELSE @]
         IN  IF BlogValidates(doc)
               THEN [status |-> 200, message |-> "",
                     blogs |-> [blogs EXCEPT ![id] = doc]]
               ELSE [status |-> 400, blogs |-> blogs,
                     message |-> "Blog validation failed"]

\* updateBlog that writes the document before validation turns it down
updateBlog_SavesUnvalidated(user, id, body) ==
    IF id = InvalidId
      THEN [status |-> 400, blogs |-> blogs, message |-> "Invalid blog post ID format"]
    ELSE LET blog == FindBlogById(id) IN
    IF blog = NoBlog
      THEN [status |-> 404, blogs |-> blogs, message |-> "Blog post not found"]
    ELSE IF user = NoUser \/ blog.userId # user._id
      THEN [status |-> 403, blogs |-> blogs,
            message |-> "User not authorized to update this blog post"]
    ELSE LET doc == [blog EXCEPT
                       !.title    = Trim(IF Truthy(body.title) THEN body.title ELSE @),
                       !.category = Trim(IF Truthy(body.category) THEN body.category ELSE @),
                       !.content  = IF Truthy(body.content) THEN body.content ELSE @,
                       !.image    = IF body.image # Undefined THEN body.image ELSE @]
         IN  IF BlogValidates(doc)
               THEN [status |-> 200, message |-> "",
                     blogs |-> [blogs EXCEPT ![id] = doc]]
               ELSE [status |-> 400, blogs |-> [blogs EXCEPT ![id] = doc],
                     message |-> "Blog validation failed"]

updateBlog(user, id, body) ==
    IF id = InvalidId
      THEN [status |-> 400, blogs |-> blogs, message |-> "Invalid blog post ID format"]
    ELSE LET blog == FindBlogById(id) IN
    IF blog = NoBlog
      THEN [status |-> 404, blogs |-> blogs, message |-> "Blog post not found"]
    ELSE IF user = NoUser \/ blog.userId # user._id
      THEN [status |-> 403, blogs |-> blogs,
            message |-> "User not authorized to update this blog post"]
    ELSE LET doc == [blog EXCEPT
                       !.title    = Trim(IF Truthy(body.title) THEN body.title ELSE @),
                       !.category = Trim(IF Truthy(body.category) THEN body.category ELSE @),
                       !.content  = IF Truthy(body.content) THEN body.content ELSE @,
                       !.image    = IF body.image # Undefined THEN body.image ELSE @]
         IN  IF BlogValidates(doc)
               THEN [status |-> 200, message |-> "",
                     blogs |-> [blogs EXCEPT ![id] = doc]]
               ELSE [status |-> 400, blogs |-> blogs,
                     message |-> "Blog validation failed"]

\* deleteBlog that compares the owner before it looks whether the blog exists
deleteBlog_GuardFirst(user, id) ==
    IF id = InvalidId
      THEN [status |-> 400, blogs |-> blogs, message |-> "Invalid blog post ID format"]
    ELSE LET blog == FindBlogById(id) IN
    IF user = NoUser \/ blog.userId # user._id
      THEN [status |-> 403, blogs |-> blogs,
            message |-> "User not authorized to delete this blog post"]
    ELSE IF blog = NoBlog
      THEN [status |-> 404, blogs |-> blogs, message |-> "Blog post not found"]
    ELSE [status |-> 200, message |-> "Blog post removed successfully",
          blogs |-> [blogs EXCEPT ![id] = NoBlog]]

deleteBlog(user, id) ==
    IF id = InvalidId
      THEN [status |-> 400, blogs |-> blogs, message |-> "Invalid blog post ID format"]
    ELSE LET blog == FindBlogById(id) IN
    IF blog = NoBlog
      THEN [status |-> 404, blogs |-> blogs, message |-> "Blog post not found"]
    ELSE IF user = NoUser \/ blog.userId # user._id
      THEN [status |-> 403, blogs |-> blogs,
            message |-> "User not authorized to delete this blog post"]
    ELSE [status |-> 200, message |-> "Blog post removed successfully",
          blogs |-> [blogs EXCEPT ![id] = NoBlog]]

\* ---------------------------------------------------------- error handler
\* errorHandler(err, req, res, next): the JSON error response
errorHandler(statusCode, err) ==
    [status |-> IF statusCode = 200 THEN 500 ELSE statusCode, message |-> err]

\* ----------------------------------------------------------------- inputs
Bearer(tok) == [present |-> TRUE, prefix |-> "Bearer", credential |-> tok]

\* tokens a client can present: the ones it was given, and what it can forge
Forgeries ==
    {FlipBit(t) : t \in issued}
      \cup {SwapSubject(t, (t.id % MaxUsers) + 1) : t \in issued}
      \cup {jwtSign(t.id, t.iat, OtherSecret) : t \in issued}
      \cup {Garbage}

\* no header, "Bearer", "Bearer <token>" and another scheme, "Basic <text>"
HeaderInputs ==
    {NoAuthorization, Bearer(NoToken),
     [present |-> TRUE, prefix |-> "Basic", credential |-> Garbage]}
      \cup {Bearer(t) : t \in issued \cup Forgeries}

NoRequest ==
    [route |-> "NONE", header |-> NoAuthorization, id |-> 0, body |-> NoBody,
     at |-> 0, known |-> FALSE, user |-> NoUser, calls |-> 0, status |-> 0,
     sent |-> FALSE, message |-> "", log |-> "",
     before |-> [b \in BlogIds |-> NoBlog], created |-> 0,
     email |-> "", password |-> "", token |-> NoToken,
     account |-> 0, path |-> "", value |-> "", stored |-> <<>>,
     accounts |-> [u \in UserIds |-> NoUser], name |-> "",
     wrote |-> FALSE, step |-> ""]

NoProbe == [fn |-> "NONE"]

\* client: the user object the AuthProvider holds (null), the Authorization
\* header (deleted), a blog request the client sent (none)
NoAccount == [_id |-> 0, name |-> "", email |-> "", token |-> Undefined]
Absent    == ""
NoEntry   == [kind |-> "none", data |-> NoAccount]
NoSent    == [fn |-> "NONE", authorization |-> Absent, user |-> NoAccount]

\* no browser tab has loaded the application.  Program state: the build
\* (copiesDefaults, viaInstance), localStorage's "blogUser" entry, the
\* AuthProvider's user / isLoading / error, axios.defaults' Authorization
\* header and the header of blogService's own axios instance, the auth calls
\* in flight, the router's location with its state.from, the page on screen,
\* and whether a render is due (stale).  History: the blog request sent
\* last, the last event with the path it asked for, and what the session
\* copies and the location were when the event arrived.
NoBrowser ==
    [open |-> FALSE, copiesDefaults |-> FALSE, viaInstance |-> FALSE,
     storage |-> NoEntry, user |-> NoAccount, header |-> Absent,
     apiHeader |-> Absent, pending |-> {}, isLoading |-> FALSE,
     error |-> "<null>", stale |-> FALSE, location |-> "", from |-> "",
     shown |-> "NONE", sent |-> NoSent, event |-> "NONE", target |-> "",
     was |-> <<NoAccount, NoEntry, Absent>>, at |-> <<"", "">>]

\* the HomePage is not mounted.  Program state: the filters and the page
\* number, isLoading and error, the list on screen (blogsData: its number of
\* pages, and as history the request it answers), the getAllBlogs requests
\* in flight.  History: the request issued last and the one before it.
NoFetch == [category |-> "", authorName |-> "", page |-> 0]
NoHome ==
    [mounted |-> FALSE, category |-> "", authorName |-> "", currentPage |-> 1,
     isLoading |-> TRUE, error |-> "<null>",
     blogsData |-> [for |-> NoFetch, pages |-> 1],
     inflight |-> {}, issued |-> NoFetch, previous |-> NoFetch]

\* no handler is between two awaits
NoHandlers == {}

\* history kept with a request: the account the presented token names was in
\* storage when the request arrived
Known(header) ==
    header.credential.id \in UserIds /\ users[header.credential.id] # NoUser

\* ------------------------------------------------------------------- Init
Init ==
    /\ users = [u \in UserIds |-> NoUser]
    /\ userCount = 0
    /\ blogs = [b \in BlogIds |-> NoBlog]
    /\ blogCount = 0
    /\ creator = [b \in BlogIds |-> 0]
    /\ issued = {}
    /\ now = 0
    /\ session = NoToken
    /\ forwardsRejections \in BOOLEAN
    /\ listening = TRUE
    /\ last = NoRequest
    /\ probe = NoProbe
    /\ browser = NoBrowser
    /\ home = NoHome
    /\ running = NoHandlers

\* -------------------------------------------------------- protected routes
\* protect rejected: the handler is skipped; the rejection reaches the error
\* handler when the framework forwards it, else the process-level
\* unhandledRejection handler, which closes the server
Rejected(route, header, p) ==
    /\ UNCHANGED <<blogs, blogCount, creator>>
    /\ last' = [NoRequest EXCEPT !.route = route, !.header = header,
                  !.at = now, !.known = Known(header), !.before = blogs,
                  !.log = p.log,
                  !.status = errorHandler(p.status, p.error).status,
                  !.message = errorHandler(p.status, p.error).message,
                  !.sent = forwardsRejections,
                  !.wrote = (blogs' # blogs \/ users' # users)]
    /\ listening' = forwardsRejections

\* router.post("/", protect, createBlog)
PostBlog(header, body) ==
    /\ listening
    /\ UNCHANGED <<users, userCount, issued, now, session, forwardsRejections, probe, browser, home, running>>
    /\ LET p == protect(header) IN
       IF ~p.next THEN Rejected("POST", header, p)
       ELSE LET h == createBlog(p.user, body) IN
            /\ h.status = 201 => blogCount < MaxBlogs
            /\ IF h.status = 201
                 THEN /\ blogs' = [blogs EXCEPT ![blogCount + 1] = h.doc]
                      /\ blogCount' = blogCount + 1
                      /\ creator' = [creator EXCEPT ![blogCount + 1] = header.credential.id]
                 ELSE UNCHANGED <<blogs, blogCount, creator>>
            /\ last' = [NoRequest EXCEPT !.route = "POST", !.header = header,
                          !.body = body, !.at = now, !.known = Known(header),
                          !.before = blogs, !.user = p.user, !.calls = 1,
                          !.status = h.status, !.message = h.message,
                          !.sent = TRUE,
                          !.wrote = (blogs' # blogs \/ users' # users),
                          !.created = IF h.status = 201 THEN blogCount + 1 ELSE 0]
            /\ UNCHANGED listening

\* router.put("/:id", protect, updateBlog)
PutBlog(header, id, body) ==
    /\ listening
    /\ UNCHANGED <<users, userCount, issued, now, session, forwardsRejections, probe, browser, home, running>>
    /\ LET p == protect(header) IN
       IF ~p.next THEN Rejected("PUT", header, p)
       ELSE LET h == updateBlog(p.user, id, body) IN
            /\ blogs' = h.blogs
            /\ last' = [NoRequest EXCEPT !.route = "PUT", !.header = header,
                          !.id = id, !.body = body, !.at = now,
                          !.known = Known(header), !.before = blogs,
                          !.user = p.user, !.calls = 1, !.status = h.status,
                          !.message = h.message, !.sent = TRUE,
                          !.wrote = (blogs' # blogs \/ users' # users)]
            /\ UNCHANGED <<blogCount, creator, listening>>

\* router.delete("/:id", protect, deleteBlog)
DeleteBlog(header, id) ==
    /\ listening
    /\ UNCHANGED <<users, userCount, issued, now, session, forwardsRejections, probe, browser, home, running>>
    /\ LET p == protect(header) IN
       IF ~p.next THEN Rejected("DELETE", header, p)
       ELSE LET h == deleteBlog(p.user, id) IN
            /\ blogs' = h.blogs
            /\ last' = [NoRequest EXCEPT !.route = "DELETE", !.header = header,
                          !.id = id, !.at = now, !.known = Known(header),
                          !.before = blogs, !.user = p.user, !.calls = 1,
                          !.status = h.status, !.message = h.message,
                          !.sent = TRUE,
                          !.wrote = (blogs' # blogs \/ users' # users)]
            /\ UNCHANGED <<blogCount, creator, listening>>

\* ---------------------------------------------------------------- bcryptjs
\* A value of the password field is a sequence: <<>> when the field is not
\* loaded (undefined), <<p>> the string p as it was given, and <<salt, p>> the
\* 60 characters bcrypt.hash(p, salt) returns, the salt followed by the digest
\* of p under that salt.
BcryptLength == 60
BadSalt == "??"           \* 29 leading characters that are no bcrypt salt

\* bcrypt keys its cipher with the first 72 bytes of the password: what a
\* longer password holds after them is not read
KeyBytes == 72
Prefix72 == "aaaaaaaaaaaaaaaaaaaaaaaaaaaaaaaaaaaaaaaaaaaaaaaaaaaaaaaaaaaaaaaaaaaaaaaa"
LongA    == Prefix72 \o "1"
LongB    == Prefix72 \o "2"

\* the bytes of s that enter the digest (s is a short string, or Prefix72
\* followed by more)
bcryptKey(s) == IF Len(s) > KeyBytes THEN Prefix72 ELSE s

\* bcrypt.hash(s, salt)
bcryptHash(s, salt) == <<salt, bcryptKey(s)>>

\* bcrypt.compare(s, hash): the promise resolves to value, or rejects with
\* error; s is hashed with the salt that hash starts with
bcryptCompare(s, hash) ==
    IF hash = <<>>
      THEN [value |-> FALSE, error |-> "Illegal arguments: string, undefined"]
    ELSE IF Len(hash) # 2
      THEN [value |-> FALSE, error |-> ""]
    ELSE IF hash[1] = BadSalt
      THEN [value |-> FALSE, error |-> "Invalid salt version"]
    ELSE [value |-> (hash = bcryptHash(s, hash[1])), error |-> ""]

\* ------------------------------------------------------------- User schema
\* the email path without the lowercase option
Lower_AsGiven(e) == e

\* email: { lowercase: true }
Lower(e) == IF e = "A@X.COM" THEN "a@x.com" ELSE e

\* email: { match: ... }
ValidEmail(e) == e \in {"a@x.com", "A@X.COM", "b@x.com", "c@x.com"}

\* password: { minlength: 6 }
MinLength == 6

\* the number of characters of a password field value
FieldLength(v) ==
    IF Len(v) = 1 THEN Len(v[1]) ELSE IF Len(v) = 2 THEN BcryptLength ELSE 0

AllPaths == {"name", "email", "password"}

\* new User({ name, email, password }): the schema's setters are applied
NewUser(id, profile) ==
    [_id |-> id, name |-> Trim(profile.name), email |-> Lower(profile.email),
     password |-> <<profile.password>>]

\* the validators of the modified paths
UserValidates(doc, modified) ==
    /\ "name" \in modified => doc.name # ""
    /\ "email" \in modified => doc.email # "" /\ ValidEmail(doc.email)
    /\ "password" \in modified => FieldLength(doc.password) >= MinLength

\* the hook without the isModified test: every save writes a fresh hash
preSave_AlwaysHashes(doc, modified, salt) ==
    IF doc.password = <<>> THEN doc
    ELSE [doc EXCEPT !.password = bcryptHash(@[Len(@)], salt)]

\* the hook that leaves the password as it was given
preSave_KeepsPlaintext(doc, modified, salt) == doc

\* userSchema.pre("save")
preSave(doc, modified, salt) ==
    IF "password" \notin modified THEN doc
    ELSE [doc EXCEPT !.password = bcryptHash(@[1], salt)]

\* save() that runs the hook first and validates what the hook left
userSave_HashThenValidate(doc, modified, salt) ==
    LET hashed == preSave(doc, modified, salt) IN
    IF UserValidates(hashed, modified)
      THEN [ok |-> TRUE, doc |-> hashed]
      ELSE [ok |-> FALSE, doc |-> doc]

\* doc.save(): validation, then the pre-save hook; doc is what gets written
userSave(doc, modified, salt) ==
    IF UserValidates(doc, modified)
      THEN [ok |-> TRUE, doc |-> preSave(doc, modified, salt)]
      ELSE [ok |-> FALSE, doc |-> doc]

\* a comparison that resolves to true whatever the candidate
comparePassword_AcceptsAny(candidate, hashed) == [value |-> TRUE, error |-> ""]

\* comparePassword(candidatePassword): bcrypt.compare against this.password
comparePassword(candidate, hashed) == bcryptCompare(candidate, hashed)

\* --------------------------------------------------------- account service
FindUserByEmail(email) ==
    {u \in UserIds : users[u] # NoUser /\ users[u].email = Lower(email)}

\* POST /api/auth/signup through AuthContext.signupUser: on 201 the client
\* stores the returned token, on failure it keeps what it had
SignupUser(profile, salt) ==
    /\ listening
    /\ LET id    == userCount + 1
           saved == userSave(NewUser(id, profile), AllPaths, salt)
           tok   == generateToken(id, now)
           req   == [NoRequest EXCEPT !.route = "SIGNUP", !.at = now, !.before = blogs,
                       !.calls = 1, !.sent = TRUE, !.email = profile.email,
                       !.password = profile.password, !.accounts = users,
                       !.name = profile.name]
       IN  IF ~saved.ok
             THEN /\ last' = [req EXCEPT !.status = 400, !.message = "Validation failed"]
                  /\ UNCHANGED <<users, userCount, issued, session>>
           ELSE IF FindUserByEmail(profile.email) # {}
             THEN /\ last' = [req EXCEPT !.status = 400, !.message = "Email already exists"]
                  /\ UNCHANGED <<users, userCount, issued, session>>
           ELSE /\ userCount < MaxUsers
                /\ tok \in issued \/ Cardinality(issued) < MaxTokens
                /\ users' = [users EXCEPT ![id] = saved.doc]
                /\ userCount' = id
                /\ issued' = issued \cup {tok}
                /\ session' = tok
                /\ last' = [req EXCEPT !.status = 201, !.token = tok,
                              !.user = [saved.doc EXCEPT !.password = <<>>]]
    /\ UNCHANGED <<blogs, blogCount, creator, now, forwardsRejections, listening, probe, browser, home, running>>

\* a login that tells an unknown email from a wrong password
LoginUser_RevealsEmail(email, password) ==
    /\ listening
    /\ LET found == FindUserByEmail(email)
           req   == [NoRequest EXCEPT !.route = "LOGIN", !.at = now, !.before = blogs,
                       !.calls = 1, !.sent = TRUE, !.email = email,
                       !.password = password]
       IN
       IF found = {}
         THEN /\ last' = [req EXCEPT !.status = 404, !.message = "User not found"]
              /\ UNCHANGED <<issued, session>>
       ELSE IF \A u \in found :
                 LET c == comparePassword(password, users[u].password)
                 IN  c.error = "" /\ c.value
         THEN \E u \in found :
                LET tok == generateToken(u, now) IN
                /\ tok \in issued \/ Cardinality(issued) < MaxTokens
                /\ issued' = issued \cup {tok}
                /\ session' = tok
                /\ last' = [req EXCEPT !.status = 200, !.token = tok,
                              !.user = [users[u] EXCEPT !.password = <<>>]]
       ELSE /\ last' = [req EXCEPT !.status = 401, !.message = "Invalid password"]
            /\ UNCHANGED <<issued, session>>
    /\ UNCHANGED <<users, userCount, blogs, blogCount, creator, now,
                   forwardsRejections, listening, probe, browser, home, running>>

\* POST /api/auth/login through AuthContext.loginUser
LoginUser(email, password) ==
    /\ listening
    /\ LET found == FindUserByEmail(email)
           req   == [NoRequest EXCEPT !.route = "LOGIN", !.at = now, !.before = blogs,
                       !.calls = 1, !.sent = TRUE, !.email = email,
                       !.password = password]
       IN
       IF found # {} /\ \A u \in found :
                          LET c == comparePassword(password, users[u].password)
                          IN  c.error = "" /\ c.value
         THEN \E u \in found :
                LET tok == generateToken(u, now) IN
                /\ tok \in issued \/ Cardinality(issued) < MaxTokens
                /\ issued' = issued \cup {tok}
                /\ session' = tok
                /\ last' = [req EXCEPT !.status = 200, !.token = tok,
                              !.user = [users[u] EXCEPT !.password = <<>>]]
         ELSE /\ last' = [req EXCEPT !.status = 401,
                            !.message = "Invalid email or password"]
              /\ UNCHANGED <<issued, session>>
    /\ UNCHANGED <<users, userCount, blogs, blogCount, creator, now,
                   forwardsRejections, listening, probe, browser, home, running>>

\* a later save of an account document: one path is assigned, then doc.save()
SaveUser(u, change, salt) ==
    /\ listening
    /\ users[u] # NoUser
    /\ LET doc   == IF change.path = "password"
                      THEN [users[u] EXCEPT !.password = <<change.value>>]
                      ELSE [users[u] EXCEPT !.name = Trim(change.value)]
           saved == userSave(doc, {change.path}, salt)
       IN  /\ users' = IF saved.ok THEN [users EXCEPT ![u] = saved.doc] ELSE users
           /\ last' = [NoRequest EXCEPT !.route = "SAVE", !.at = now, !.before = blogs,
                         !.calls = 1, !.sent = TRUE, !.account = u,
                         !.path = change.path, !.value = change.value,
                         !.stored = users[u].password,
                         !.status = IF saved.ok THEN 200 ELSE 400]
    /\ UNCHANGED <<userCount, blogs, blogCount, creator, issued, now, session,
                   forwardsRejections, listening, probe, browser, home, running>>

\* AuthContext.logoutUser: client only, no request is sent
LogoutUser ==
    /\ session # NoToken
    /\ session' = NoToken
    /\ UNCHANGED <<users, userCount, blogs, blogCount, creator, issued, now,
                   forwardsRejections, listening, last, probe, browser, home, running>>

\* ------------------------------------------------------------ environment
\* time passes
Tick ==
    /\ now + DaysPerTick <= MaxTime
    /\ now' = now + DaysPerTick
    /\ UNCHANGED <<users, userCount, blogs, blogCount, creator, issued, session,
                   forwardsRejections, listening, last, probe, browser, home, running>>

\* an account document is removed from storage after its tokens were issued
RemoveAccount(u) ==
    /\ users[u] # NoUser
    /\ users' = [users EXCEPT ![u] = NoUser]
    /\ UNCHANGED <<userCount, blogs, blogCount, creator, issued, now, session,
                   forwardsRejections, listening, last, probe, browser, home, running>>

\* ------------------------------------------------------------------- Next
\* Blog ownership: accounts sign up and log in, and every client sends
\* create, update and delete requests with either no credential or a token
\* the server gave out
OwnerHeaders == {NoAuthorization} \cup {Bearer(t) : t \in issued}

Next ==
    \/ \E profile \in Profiles, salt \in Salts : SignupUser(profile, salt)
    \/ \E email \in Emails, password \in Passwords : LoginUser(email, password)
    \/ \E header \in OwnerHeaders, body \in Bodies : PostBlog(header, body)
    \/ \E header \in OwnerHeaders, id \in BlogIds \cup {InvalidId}, body \in Bodies :
         PutBlog(header, id, body)
    \/ \E header \in OwnerHeaders, id \in BlogIds \cup {InvalidId} :
         DeleteBlog(header, id)

Spec == Init /\ [][Next]_vars

\* Authentication: time passes, accounts disappear, clients log out, and the
\* protected routes receive every kind of Authorization header; the bodies
\* are the ones createBlog turns down and the ids name no stored blog, so
\* the Blog collection stays empty
AuthBodies == {b \in Bodies : ~Truthy(b.title)}
AuthIds    == {blogCount + 1}

NextAuth ==
    \/ \E profile \in Profiles, salt \in Salts : SignupUser(profile, salt)
    \/ \E email \in Emails, password \in Passwords : LoginUser(email, password)
    \/ LogoutUser
    \/ \E header \in HeaderInputs, body \in AuthBodies : PostBlog(header, body)
    \/ \E header \in HeaderInputs, id \in AuthIds, body \in AuthBodies :
         PutBlog(header, id, body)
    \/ \E header \in HeaderInputs, id \in AuthIds : DeleteBlog(header, id)
    \/ Tick
    \/ \E u \in UserIds : RemoveAccount(u)

SpecAuth == Init /\ [][NextAuth]_vars

\* Accounts: registrations with valid and invalid fields and with emails that
\* differ only in letter case, logins of registered and unregistered emails,
\* and later saves of a stored account
AccountProfiles ==
    { [name |-> "Ann", email |-> "a@x.com",    password |-> "secret1"],
      [name |-> "Eve", email |-> "A@X.COM",    password |-> "secret2"],
      [name |-> "Bob", email |-> "b@x.com",    password |-> "123456"],
      [name |-> " ",   email |-> "c@x.com",    password |-> "secret1"],
      [name |-> "",    email |-> "c@x.com",    password |-> "secret1"],
      [name |-> "Cy",  email |-> "c-at-x.com", password |-> "secret1"],
      [name |-> "Cy",  email |-> "c@x.com",    password |-> "12345"] }
AccountEmails    == {"a@x.com", "A@X.COM", "b@x.com", "c@x.com"}
AccountPasswords == {"secret1", "secret2", "123456"}
AccountSalts     == {"s1", "s2"}
Changes ==
    { [path |-> "name",     value |-> "Ann B."],
      [path |-> "name",     value |-> " "],
      [path |-> "password", value |-> "secret2"],
      [path |-> "password", value |-> "12345"] }

NextAccount ==
    \/ \E profile \in AccountProfiles, salt \in AccountSalts : SignupUser(profile, salt)
    \/ \E email \in AccountEmails, password \in AccountPasswords : LoginUser(email, password)
    \/ \E u \in UserIds, change \in Changes, salt \in AccountSalts : SaveUser(u, change, salt)

SpecAccount == Init /\ [][NextAccount]_vars

\* Credential hasher: the hook's hash and comparePassword called directly.
\* bcrypt.genSalt draws 16 random bytes on every call: two calls are given
\* two different salts.
HasherPasswords == {"", "secret1", "secret2", "123456", LongA, LongB}
HasherSalts     == {"s1", "s2", "s3"}

\* what comparePassword can find in this.password: a hash, nothing (the
\* document was loaded without the field), a string that was never hashed,
\* and 60 characters that are no bcrypt hash
StoredForms ==
    {bcryptHash(p, salt) : p \in HasherPasswords, salt \in HasherSalts}
      \cup {<<>>, <<"secret1">>, <<BadSalt, "secret1">>}

\* the password is set on two documents and each is saved; q is then
\* compared with both stored values
HashTwice(p, q, salt1, salt2) ==
    /\ salt1 # salt2
    /\ LET doc    == [NoUser EXCEPT !.password = <<p>>]
           first  == preSave(doc, {"password"}, salt1).password
           second == preSave(doc, {"password"}, salt2).password
       IN  probe' = [fn |-> "hash", p |-> p, q |-> q,
                     first |-> first, second |-> second,
                     verifyFirst  |-> comparePassword(q, first),
                     verifySecond |-> comparePassword(q, second)]
    /\ UNCHANGED <<users, userCount, blogs, blogCount, creator, issued, now,
                   session, forwardsRejections, listening, last,
                   browser, home, running>>

\* user.comparePassword(candidate) on a document whose password field holds hashed
Compare(candidate, hashed) ==
    /\ probe' = [fn |-> "compare", candidate |-> candidate, hashed |-> hashed,
                 out |-> comparePassword(candidate, hashed)]
    /\ UNCHANGED <<users, userCount, blogs, blogCount, creator, issued, now,
                   session, forwardsRejections, listening, last,
                   browser, home, running>>

NextHasher ==
    \/ \E p, q \in HasherPasswords, salt1, salt2 \in HasherSalts :
         HashTwice(p, q, salt1, salt2)
    \/ \E candidate \in HasherPasswords, hashed \in StoredForms :
         Compare(candidate, hashed)

SpecHasher == Init /\ [][NextHasher]_vars

\* Error path: an operation inside a try block throws, the catch block of
\* protect or of the controller acts on it, and the error handler the server
\* installed writes the response.  The server installs errorHandler of
\* errorMiddleware.js in one version of server.js and an inline handler in the
\* other; NODE_ENV is whatever the environment sets, or nothing.
Null == "<null>"
NodeEnvs == {"production", "development", "test", Undefined}
ErrorHandlers == {"errorHandler", "inline"}

\* storage is unavailable: a Blog or User query rejects
StorageDown ==
    [name |-> "MongooseServerSelectionError",
     message |-> "connect ECONNREFUSED 127.0.0.1:27017",
     stack |-> "MongooseServerSelectionError: connect ECONNREFUSED 127.0.0.1:27017 at ..."]
\* JWT_SECRET is not set: jwt.verify throws
NoSecret ==
    [name |-> "JsonWebTokenError",
     message |-> "secret or public key must be provided",
     stack |-> "JsonWebTokenError: secret or public key must be provided at ..."]
ValidationFailed ==
    [name |-> "ValidationError",
     message |-> "Blog validation failed",
     stack |-> "ValidationError: Blog validation failed at ..."]
CastFailed ==
    [name |-> "CastError",
     message |-> "Cast to ObjectId failed",
     stack |-> "CastError: Cast to ObjectId failed at ..."]

\* new Error(message)
NewError(message) ==
    [name |-> "Error", message |-> message, stack |-> "Error: " \o message \o " at ..."]

\* the errors an operation in the try block of each site can throw
Throws(site) ==
    CASE site = "protect"    -> {StorageDown, NoSecret}
      [] site = "createBlog" -> {StorageDown, ValidationFailed}
      [] site = "updateBlog" -> {StorageDown, ValidationFailed, CastFailed}
      [] site = "deleteBlog" -> {StorageDown, CastFailed}
Sites == {"protect", "createBlog", "updateBlog", "deleteBlog"}

\* the catch block of the site: the status it sets on the response (200 when
\* it sets none) and the error it hands on
Caught(site, err) ==
    IF site = "protect"
      THEN [statusCode |-> 401, log |-> err.message,
            err |-> NewError("Not authorized, token failed or expired")]
    ELSE IF err.name = "ValidationError" /\ site \in {"createBlog", "updateBlog"}
      THEN [statusCode |-> 400, log |-> "", err |-> err]
    ELSE IF err.name = "CastError" /\ site \in {"updateBlog", "deleteBlog"}
      THEN [statusCode |-> 400, log |-> "", err |-> NewError("Invalid blog post ID format")]
    ELSE [statusCode |-> 200, log |-> "", err |-> err]

\* errorHandler: res.status(statusCode); res.json({ message, stack })
errorHandlerJson(statusCode, err, env) ==
    [status  |-> errorHandler(statusCode, err.message).status,
     message |-> errorHandler(statusCode, err.message).message,
     stack   |-> IF env = "production" THEN Null ELSE err.stack,
     error   |-> Undefined]

\* app.use((err, req, res, next) => ...) of server.js
inlineErrorHandler(statusCode, err) ==
    [status  |-> IF statusCode = 200 THEN 500 ELSE statusCode,
     message |-> err.message,
     stack   |-> Undefined,
     error   |-> err.name]

\* an operation of the site throws err while the process runs with NODE_ENV =
\* env and the given error handler installed; what protect throws reaches the
\* handler when the framework forwards it, else the server is closed
Fail(site, err, env, handler) ==
    /\ listening
    /\ err \in Throws(site)
    /\ LET c == Caught(site, err)
           r == IF handler = "inline"
                  THEN inlineErrorHandler(c.statusCode, c.err)
                  ELSE errorHandlerJson(c.statusCode, c.err, env)
       IN  probe' = [fn |-> "error", site |-> site, err |-> err, env |-> env,
                     handler |-> handler, log |-> c.log,
                     sent |-> (site = "protect" => forwardsRejections),
                     status |-> r.status, body |-> r]
    /\ listening' = (site = "protect" => forwardsRejections)
    /\ UNCHANGED <<users, userCount, blogs, blogCount, creator, issued, now,
                   session, forwardsRejections, last, browser, home, running>>

NextErrors ==
    \E site \in Sites, err \in {StorageDown, NoSecret, ValidationFailed, CastFailed},
       env \in NodeEnvs, handler \in ErrorHandlers :
        Fail(site, err, env, handler)

SpecErrors == Init /\ [][NextErrors]_vars

\* ------------------------------------------------------------ blog lists
DefaultPageSize == 10     \* Number(req.query.limit) || 10
PostsPerPage    == 6      \* postsPerPage of MyBlogsPage and HomePage

\* .sort({ createdAt: -1 }): ids are handed out in the order of creation
RECURSIVE Newest(_)
Newest(S) ==
    IF S = {} THEN <<>>
    ELSE LET m == CHOOSE x \in S : \A y \in S : y <= x
         IN  <<m>> \o Newest(S \ {m})

\* getBlogs: the stored blogs whose category and authorName equal the ones
\* asked for, newest first, cut to the page asked for (limit and page are 0
\* when the query has none)
getBlogs(query) ==
    LET pageSize == IF query.limit # 0 THEN query.limit ELSE DefaultPageSize
        page     == IF query.page # 0 THEN query.page ELSE 1
        found    == {b \in BlogIds :
                       /\ blogs[b] # NoBlog
                       /\ Truthy(query.category) => blogs[b].category = query.category
                       /\ Truthy(query.authorName) => blogs[b].authorName = query.authorName}
        count    == Cardinality(found)
        sorted   == Newest(found)
        skip     == pageSize * (page - 1)
        upto     == IF skip + pageSize < count THEN skip + pageSize ELSE count
    IN  [status |-> 200,
         blogs  |-> [i \in 1..(IF upto > skip THEN upto - skip ELSE 0) |->
                       [_id |-> sorted[skip + i], doc |-> blogs[sorted[skip + i]]]],
         page   |-> page,
         pages  |-> (count + pageSize - 1) \div pageSize,
         count  |-> count]

\* fetchMyBlogs of MyBlogsPage for the user object the AuthProvider holds
fetchMyBlogs(user, page) ==
    IF ~Truthy(user.token) \/ ~Truthy(user.name)
      THEN [error |-> "User not authenticated or user name not available.",
            blogsData |-> [status |-> 0, blogs |-> <<>>, page |-> 1, pages |-> 1,
                           count |-> 0]]
      ELSE [error |-> "<null>",
            blogsData |-> getBlogs([category |-> Undefined, authorName |-> user.name,
                                    page |-> page, limit |-> PostsPerPage])]

\* the account u is logged in and opens its My Blogs page at a page number
MyBlogs(u, page) ==
    /\ listening
    /\ users[u] # NoUser
    /\ LET user == [_id |-> u, name |-> users[u].name, email |-> users[u].email,
                    token |-> "T"]
       IN  probe' = [fn |-> "myBlogs", user |-> user, page |-> page,
                     out |-> fetchMyBlogs(user, page)]
    /\ UNCHANGED <<server, browser, home>>

\* accounts of which two bear the same name
NamesakeProfiles ==
    { [name |-> "Ann", email |-> "a@x.com", password |-> "secret1"],
      [name |-> "Ann", email |-> "b@x.com", password |-> "secret2"],
      [name |-> "Bob", email |-> "c@x.com", password |-> "secret1"] }

NextMyBlogs ==
    \/ \E profile \in NamesakeProfiles, salt \in Salts : SignupUser(profile, salt)
    \/ \E header \in OwnerHeaders, body \in Bodies : PostBlog(header, body)
    \/ \E u \in UserIds, page \in 1..2 : MyBlogs(u, page)

SpecMyBlogs == Init /\ [][NextMyBlogs]_vars

\* ---------------------------------------------------------------- HomePage
MaxPages    == 2      \* pages a list has at most
MaxInflight == 2      \* getAllBlogs requests in flight at a time

Categories  == {"", "Technology"}
AuthorNames == {"", "A", "An"}

\* fetchBlogs: the URL's search parameters are set to the filters and the
\* page, and getAllBlogs is called with them
fetchBlogs(h) ==
    LET params == [category |-> h.category, authorName |-> h.authorName,
                   page |-> h.currentPage]
    IN  [h EXCEPT !.isLoading = TRUE, !.error = "<null>",
                  !.inflight = h.inflight \cup {params},
                  !.previous = h.issued, !.issued = params]

\* useEffect(() => { fetchBlogs() }, [fetchBlogs]): the callback is a new
\* one, and the effect runs, when category, authorName or currentPage has
\* changed in the render
homeEffect(h, rendered) ==
    IF <<rendered.category, rendered.authorName, rendered.currentPage>>
         # <<h.category, h.authorName, h.currentPage>>
      THEN fetchBlogs(rendered)
      ELSE rendered

handleCategoryChange(h, c)   == [h EXCEPT !.category = c, !.currentPage = 1]
handleAuthorNameChange(h, a) == [h EXCEPT !.authorName = a]
handleAuthorFilterSubmit(h)  == [h EXCEPT !.currentPage = 1]
handlePageChange(h, newPage) ==
    IF newPage >= 1 /\ newPage <= h.blogsData.pages
      THEN [h EXCEPT !.currentPage = newPage]
      ELSE h
handleResetFilters(h) ==
    [h EXCEPT !.category = "", !.authorName = "", !.currentPage = 1]

\* the page is mounted with the filters and page number of the URL
MountHome(c, a, page) ==
    /\ ~home.mounted
    /\ home' = fetchBlogs([NoHome EXCEPT !.mounted = TRUE, !.category = c,
                             !.authorName = a, !.currentPage = page])
    /\ UNCHANGED <<server, probe, browser>>

\* an event of the page: its handler, the render, the effect
HomeEvent(next) ==
    /\ home.mounted
    /\ next # home
    /\ Cardinality(homeEffect(home, next).inflight) <= MaxInflight
    /\ home' = homeEffect(home, next)
    /\ UNCHANGED <<server, probe, browser>>

\* the Select and the Input are never disabled
CategoryChange(c)   == c # home.category /\ HomeEvent(handleCategoryChange(home, c))
AuthorNameChange(a) == a # home.authorName /\ HomeEvent(handleAuthorNameChange(home, a))

\* the buttons are disabled while isLoading; Previous and Next are there
\* when the list has several pages, Previous is disabled on page 1 and Next
\* on the last page
AuthorFilterSubmit == ~home.isLoading /\ HomeEvent(handleAuthorFilterSubmit(home))
ResetFilters       == ~home.isLoading /\ HomeEvent(handleResetFilters(home))
PageChange(newPage) ==
    /\ ~home.isLoading /\ home.blogsData.pages > 1
    /\ \/ newPage = home.currentPage - 1 /\ home.currentPage # 1
       \/ newPage = home.currentPage + 1 /\ home.currentPage # home.blogsData.pages
    /\ HomeEvent(handlePageChange(home, newPage))

\* a getAllBlogs call in flight settles: with the list for its parameters,
\* which has some number of pages, or with an error
Respond(req, ok, pages) ==
    /\ home.mounted /\ req \in home.inflight
    /\ home' = [home EXCEPT
                  !.inflight = home.inflight \ {req},
                  !.blogsData = IF ok THEN [for |-> req, pages |-> pages] ELSE @,
                  !.error = IF ok THEN @ ELSE "Error: Failed to fetch blogs",
                  !.isLoading = FALSE]
    /\ UNCHANGED <<server, probe, browser>>

FetchInputs ==
    [category : Categories, authorName : AuthorNames, page : 1..MaxPages]

NextHome ==
    \/ \E c \in Categories, a \in AuthorNames, page \in 1..MaxPages : MountHome(c, a, page)
    \/ \E c \in Categories : CategoryChange(c)
    \/ \E a \in AuthorNames : AuthorNameChange(a)
    \/ AuthorFilterSubmit
    \/ ResetFilters
    \/ \E newPage \in 0..(MaxPages + 1) : PageChange(newPage)
    \/ \E req \in FetchInputs, ok \in BOOLEAN, pages \in 1..MaxPages :
          Respond(req, ok, pages)

SpecHome == Init /\ [][NextHome]_vars

\* ------------------------------------------------------- frontend services
\* API_URL of authService, BASE_URL + "/api/blogs" of blogService:
\* import.meta.env.PROD picks the host
AuthUrl(prod) ==
    IF prod THEN "https://multi-user-blogging-app.onrender.com/api/auth"
            ELSE "/api/auth"
BlogUrl(prod) ==
    (IF prod THEN "https://blog-app-backend.onrender.com" ELSE "") \o "/api/blogs"

\* per function: the axios call it makes and the message of its catch block
authService ==
    [signup         |-> [method |-> "POST", path |-> "/signup",
                         fallback |-> "Failed to create account"],
     login          |-> [method |-> "POST", path |-> "/login",
                         fallback |-> "Invalid email or password"],
     getCurrentUser |-> [method |-> "GET", path |-> "/me",
                         fallback |-> "Failed to fetch user data"],
     updateProfile  |-> [method |-> "PUT", path |-> "/profile",
                         fallback |-> "Failed to update profile"],
     changePassword |-> [method |-> "PUT", path |-> "/change-password",
                         fallback |-> "Failed to change password"]]

blogService ==
    [getAllBlogs |-> [method |-> "GET", path |-> "",
                      fallback |-> "Failed to fetch blogs"],
     getBlogById |-> [method |-> "GET", path |-> "/1",
                      fallback |-> "Failed to fetch blog post"],
     createBlog  |-> [method |-> "POST", path |-> "",
                      fallback |-> "Failed to create blog post"],
     updateBlog  |-> [method |-> "PUT", path |-> "/1",
                      fallback |-> "Failed to update blog post"],
     deleteBlog  |-> [method |-> "DELETE", path |-> "/1",
                      fallback |-> "Failed to delete blog post"]]

Services == {"authService", "blogService"}
ServiceTable(service) == IF service = "authService" THEN authService ELSE blogService
ServiceUrl(service, prod) == IF service = "authService" THEN AuthUrl(prod) ELSE BlogUrl(prod)

\* how axios settles a request: it resolves with a response carrying data, or
\* rejects with an error whose response is absent (network failure, timeout)
\* or carries the body the server sent
NoResponse == [status |-> 0, message |-> Undefined]
Payloads ==
    { [_id |-> 1, name |-> "Ann", email |-> "a@x.com", token |-> "T1"],
      [_id |-> 2, name |-> "Bob", email |-> "b@x.com", token |-> "T2"] }
ErrorResponses ==
    { [status |-> 502, message |-> Undefined],
      [status |-> 500, message |-> ""],
      [status |-> 400, message |-> "Email already exists"],
      [status |-> 401, message |-> "Invalid email or password"],
      [status |-> 401, message |-> "Not authorized, no token provided"],
      [status |-> 404, message |-> "Blog post not found"] }
Resolves(data)   == [ok |-> TRUE, data |-> data, response |-> NoResponse]
Rejects(response) == [ok |-> FALSE, data |-> NoAccount, response |-> response]
AxiosReplies ==
    {Resolves(d) : d \in Payloads} \cup {Rejects(r) : r \in ErrorResponses \cup {NoResponse}}

\* a service function that throws its own message whatever the server said
serviceCall_OwnMessage(service, fn, prod, reply) ==
    LET e == ServiceTable(service)[fn] IN
    [requests |-> <<[method |-> e.method, url |-> ServiceUrl(service, prod) \o e.path]>>,
     returned |-> reply.ok,
     data     |-> IF reply.ok THEN reply.data ELSE NoAccount,
     thrown   |-> IF reply.ok THEN Undefined ELSE e.fallback]

\* try { const response = await axios.<method>(url, ...); return response.data }
\* catch (error) { throw new Error(error.response?.data?.message || fallback) }
serviceCall(service, fn, prod, reply) ==
    LET e == ServiceTable(service)[fn] IN
    [requests |-> <<[method |-> e.method, url |-> ServiceUrl(service, prod) \o e.path]>>,
     returned |-> reply.ok,
     data     |-> IF reply.ok THEN reply.data ELSE NoAccount,
     thrown   |-> IF reply.ok THEN Undefined
                  ELSE IF Truthy(reply.response.message)
                         THEN reply.response.message
                         ELSE e.fallback]

\* one call of a service function, settled by axios with reply
CallService(service, fn, prod, reply) ==
    /\ fn \in DOMAIN ServiceTable(service)
    /\ probe' = [fn |-> "service", service |-> service, name |-> fn,
                 prod |-> prod, reply |-> reply,
                 out |-> serviceCall(service, fn, prod, reply)]
    /\ UNCHANGED <<server, browser, home>>

NextServices ==
    \E service \in Services, fn \in DOMAIN authService \cup DOMAIN blogService,
       prod \in BOOLEAN, reply \in AxiosReplies :
        CallService(service, fn, prod, reply)

SpecServices == Init /\ [][NextServices]_vars

\* ------------------------------------------------- frontend: AuthProvider
\* what localStorage may hold under "blogUser" when the application loads:
\* nothing, text that is not JSON, a user object, a user object without token
StoredEntries ==
    {NoEntry, [kind |-> "corrupt", data |-> NoAccount]}
      \cup {[kind |-> "json", data |-> d] : d \in Payloads}
      \cup {[kind |-> "json", data |-> [d EXCEPT !.token = Undefined]] :
               d \in {p \in Payloads : p.name = "Ann"}}

\* getUserFromStorage: the parsed entry, or null; an entry that does not
\* parse is removed
getUserFromStorage(entry) ==
    [user    |-> IF entry.kind = "json" THEN entry.data ELSE NoAccount,
     storage |-> IF entry.kind = "corrupt" THEN NoEntry ELSE entry]

\* isAuthenticated: !!(user && user.token)
isAuthenticated(b) == Truthy(b.user.token)

\* the useEffect of AuthProvider, which runs after a render in which user
\* has changed
authEffect(b) ==
    [b EXCEPT !.header = IF isAuthenticated(b) THEN "Bearer " \o b.user.token
                                               ELSE Absent]

\* signupUser / loginUser up to the await
startAuth(b, fn) ==
    [b EXCEPT !.isLoading = TRUE, !.error = "<null>",
              !.pending = b.pending \cup {fn}]

\* loginUser after authService.login has settled with out
loginUser(b, out) ==
    IF out.returned
      THEN [b EXCEPT !.user = out.data,
                     !.storage = [kind |-> "json", data |-> out.data],
                     !.header = "Bearer " \o out.data.token,
                     !.isLoading = FALSE]
      ELSE [b EXCEPT !.error = "Error: " \o out.thrown, !.isLoading = FALSE]

\* signupUser after authService.signup has settled with out
signupUser(b, out) ==
    IF out.returned
      THEN [b EXCEPT !.user = out.data,
                     !.storage = [kind |-> "json", data |-> out.data],
                     !.header = "Bearer " \o out.data.token,
                     !.isLoading = FALSE]
      ELSE [b EXCEPT !.error = "Error: " \o out.thrown, !.isLoading = FALSE]

\* a logout that leaves the stored entry behind
logoutUser_KeepsStorage(b) ==
    [b EXCEPT !.user = NoAccount, !.header = Absent]

\* logoutUser
logoutUser(b) ==
    [b EXCEPT !.user = NoAccount, !.storage = NoEntry, !.header = Absent]

\* ------------------------------------------------------- frontend: routes
ProtectedPaths == {"/create-blog", "/edit-blog/1", "/my-blogs"}
PublicPaths    == {"/", "/login", "/signup", "/blog/1"}
Paths          == ProtectedPaths \cup PublicPaths
EntryPaths     == {"/", "/my-blogs"}      \* where a visit starts

\* <Routes> of App: the page element of a path
Page(path) ==
    CASE path = "/"            -> "HomePage"
      [] path = "/login"       -> "LoginPage"
      [] path = "/signup"      -> "SignupPage"
      [] path = "/blog/1"      -> "SingleBlogPage"
      [] path = "/create-blog" -> "CreateBlogPage"
      [] path = "/edit-blog/1" -> "EditBlogPage"
      [] path = "/my-blogs"    -> "MyBlogsPage"
      [] OTHER                 -> "NotFoundPage"

ProtectedPages == {Page(p) : p \in ProtectedPaths}

\* a guard that redirects without saving the attempted location
ProtectedRoute_DropsLocation(b) ==
    IF b.isLoading THEN [b EXCEPT !.shown = "Spinner"]
    ELSE IF ~isAuthenticated(b)
      THEN [b EXCEPT !.location = "/login", !.from = "", !.shown = "LoginPage"]
    ELSE [b EXCEPT !.shown = Page(b.location)]

\* ProtectedRoute around the page of a protected path; the Navigate element
\* it returns replaces the location by /login with state { from: location },
\* where the LoginPage renders
ProtectedRoute(b) ==
    IF b.isLoading THEN [b EXCEPT !.shown = "Spinner"]
    ELSE IF ~isAuthenticated(b)
      THEN [b EXCEPT !.location = "/login", !.from = b.location,
                     !.shown = "LoginPage"]
    ELSE [b EXCEPT !.shown = Page(b.location)]

\* the element of the current location
Element(b) ==
    IF b.location \in ProtectedPaths THEN ProtectedRoute(b)
    ELSE [b EXCEPT !.shown = Page(b.location)]

\* LoginPage and its redirect effect: navigate(from, { replace: true }) with
\* from = location.state?.from?.pathname || "/"
LoginPage(b) ==
    IF isAuthenticated(b)
      THEN Element([b EXCEPT !.location = IF b.from # "" THEN b.from ELSE "/",
                             !.from = ""])
      ELSE [b EXCEPT !.shown = "LoginPage"]

\* SignupPage and its redirect effect: navigate("/")
SignupPage(b) ==
    IF isAuthenticated(b)
      THEN Element([b EXCEPT !.location = "/", !.from = ""])
      ELSE [b EXCEPT !.shown = "SignupPage"]

\* one render of App with the effects it schedules, followed through the
\* navigations they make
Render(b) ==
    LET a == authEffect(b) IN
    [(CASE a.location = "/login"  -> LoginPage(a)
        [] a.location = "/signup" -> SignupPage(a)
        [] OTHER                  -> Element(a))
     EXCEPT !.stale = FALSE]

\* the Authorization header a request of blogService goes out with: the
\* service's own instance has the defaults axios.create gave it, which are
\* axios.defaults' own objects or copies of them
blogAuthorization(b) ==
    IF ~b.viaInstance \/ ~b.copiesDefaults THEN b.header ELSE b.apiHeader

\* ------------------------------------------------------ frontend: actions
\* the application is loaded at path: modules are evaluated (blogService
\* creates its instance), AuthProvider reads localStorage
OpenApp(copies, via, entry, path) ==
    /\ ~browser.open
    /\ LET s == getUserFromStorage(entry) IN
       browser' = [NoBrowser EXCEPT !.open = TRUE, !.copiesDefaults = copies,
                     !.viaInstance = via, !.storage = s.storage,
                     !.user = s.user, !.apiHeader = Absent, !.stale = TRUE,
                     !.location = path, !.event = "open", !.target = path]
    /\ UNCHANGED <<server, probe, home>>

\* React renders what the events so far have changed
Commit ==
    /\ browser.open /\ browser.stale
    /\ browser' = Render(browser)
    /\ UNCHANGED <<server, probe, home>>

\* a link or navigate(path)
Navigate(path) ==
    /\ browser.open /\ ~browser.stale
    /\ browser' = [browser EXCEPT !.location = path, !.from = "",
                     !.stale = TRUE, !.event = "navigate", !.target = path,
                     !.was = NoBrowser.was, !.at = NoBrowser.at]
    /\ UNCHANGED <<server, probe, home>>

\* handleSubmit of LoginPage (fn = "login") or SignupPage (fn = "signup")
\* up to its await
Submit(fn) ==
    /\ browser.open /\ ~browser.stale
    /\ browser.shown = (IF fn = "login" THEN "LoginPage" ELSE "SignupPage")
    /\ fn \notin browser.pending
    /\ browser' = [startAuth(browser, fn) EXCEPT !.stale = TRUE,
                     !.event = fn \o "-sent", !.target = "",
                     !.was = NoBrowser.was, !.at = NoBrowser.at]
    /\ UNCHANGED <<server, probe, home>>

\* the server's answers to a login or signup
AuthReplies(fn) ==
    {Resolves(d) : d \in Payloads}
      \cup {Rejects(NoResponse),
            Rejects(IF fn = "login"
                      THEN [status |-> 401, message |-> "Invalid email or password"]
                      ELSE [status |-> 400, message |-> "Email already exists"])}

\* the awaited authService call settles and loginUser / signupUser runs on;
\* after a successful signup, SignupPage's handleSubmit navigates to /login
\* with state { from: "/" }, whose from has no pathname
Settle(fn, reply) ==
    /\ browser.open /\ fn \in browser.pending
    /\ reply \in AuthReplies(fn)
    /\ LET out == serviceCall("authService", fn, FALSE, reply)
           b   == IF fn = "login" THEN loginUser(browser, out)
                                  ELSE signupUser(browser, out)
           c   == IF fn = "signup" /\ out.returned
                    THEN [b EXCEPT !.location = "/login", !.from = ""]
                    ELSE b
       IN browser' = [c EXCEPT !.pending = browser.pending \ {fn},
                        !.stale = TRUE,
                        !.event = fn \o (IF out.returned THEN "-ok" ELSE "-failed"),
                        !.target = "",
                        !.was = <<browser.user, browser.storage, browser.header>>,
                        !.at = <<browser.location, browser.from>>]
    /\ UNCHANGED <<server, probe, home>>

\* handleLogout of the Navbar, shown to an authenticated user: logoutUser,
\* then navigate(to) with to = "/login" or "/" (the two Navbars)
Logout(to) ==
    /\ browser.open /\ ~browser.stale /\ isAuthenticated(browser)
    /\ browser' = [logoutUser(browser) EXCEPT !.location = to, !.from = "",
                     !.stale = TRUE, !.event = "logout", !.target = to,
                     !.was = NoBrowser.was, !.at = NoBrowser.at]
    /\ UNCHANGED <<server, probe, home>>

\* the pages that call blogService, and the function each calls; the
\* mutating calls are made for an authenticated user only
Senders ==
    [getAllBlogs |-> "HomePage",
     createBlog |-> "CreateBlogPage", updateBlog |-> "EditBlogPage",
     deleteBlog |-> "SingleBlogPage"]

\* a page sends a request through blogService
SendBlog(fn) ==
    /\ browser.open /\ ~browser.stale
    /\ browser.shown = Senders[fn]
    /\ fn \in {"createBlog", "updateBlog", "deleteBlog"} => isAuthenticated(browser)
    /\ browser' = [browser EXCEPT !.sent =
                     [fn |-> fn, authorization |-> blogAuthorization(browser),
                      user |-> browser.user]]
    /\ UNCHANGED <<server, probe, home>>

NextClient ==
    \/ \E copies \in BOOLEAN, via \in BOOLEAN, entry \in StoredEntries,
          path \in EntryPaths :
          OpenApp(copies, via, entry, path)
    \/ Commit
    \/ \E path \in Paths : Navigate(path)
    \/ \E fn \in {"login", "signup"} : Submit(fn)
    \/ \E fn \in {"login", "signup"}, reply \in AxiosReplies : Settle(fn, reply)
    \/ \E to \in {"/login", "/"} : Logout(to)

SpecClient == Init /\ [][NextClient]_vars

\* the client with the requests its pages send through blogService
NextRequests ==
    \/ NextClient
    \/ \E fn \in DOMAIN Senders : SendBlog(fn)

SpecRequests == Init /\ [][NextRequests]_vars

\* ------------------------------------------------- interleaved handlers
\* updateBlog and deleteBlog await twice, Blog.findById and then their write;
\* between the two the event loop runs the steps of other requests.  A
\* handler that has loaded its blog and passed the ownership check waits in
\* running with the document it loaded.
MaxRunning == 2
BlogFields == DOMAIN NoBlog

\* Blog.findById and the checks that follow it in updateBlog and deleteBlog:
\* status 0 when the handler goes on to its write
findOwned(user, id, verb) ==
    IF id = InvalidId
      THEN [status |-> 400, blog |-> NoBlog, message |-> "Invalid blog post ID format"]
    ELSE LET blog == FindBlogById(id) IN
    IF blog = NoBlog
      THEN [status |-> 404, blog |-> NoBlog, message |-> "Blog post not found"]
    ELSE IF user = NoUser \/ blog.userId # user._id
      THEN [status |-> 403, blog |-> NoBlog,
            message |-> "User not authorized to " \o verb \o " this blog post"]
    ELSE [status |-> 0, blog |-> blog, message |-> ""]

\* the assignments updateBlog makes on the document it loaded
assignBody(blog, body) ==
    [blog EXCEPT
       !.title    = Trim(IF Truthy(body.title) THEN body.title ELSE @),
       !.category = Trim(IF Truthy(body.category) THEN body.category ELSE @),
       !.content  = IF Truthy(body.content) THEN body.content ELSE @,
       !.image    = IF body.image # Undefined THEN body.image ELSE @]

\* a save that inserts the document when none has its _id
save_Upserts(id, loaded, doc, throwsOnMissing) ==
    IF ~BlogValidates(doc)
      THEN [status |-> 400, blogs |-> blogs, message |-> "Blog validation failed"]
    ELSE [status |-> 200, message |-> "", blogs |-> [blogs EXCEPT ![id] = doc]]

\* blog.save() on a loaded document: validation, then an update by _id of
\* the paths that were modified, never an insert.  When no document has the
\* _id any more, Mongoose either rejects with DocumentNotFoundError, which
\* the handler passes on as a 500, or (older releases) resolves as if the
\* update had been applied; which one is a property of the installed release.
save(id, loaded, doc, throwsOnMissing) ==
    IF ~BlogValidates(doc)
      THEN [status |-> 400, blogs |-> blogs, message |-> "Blog validation failed"]
    ELSE IF doc = loaded
      THEN [status |-> 200, blogs |-> blogs, message |-> ""]
    ELSE IF blogs[id] = NoBlog
      THEN [status |-> IF throwsOnMissing THEN 500 ELSE 200, blogs |-> blogs,
            message |-> IF throwsOnMissing THEN "No document found" ELSE ""]
    ELSE [status |-> 200, message |-> "",
          blogs |-> [blogs EXCEPT ![id] =
                       [f \in BlogFields |->
                          IF doc[f] # loaded[f] THEN doc[f] ELSE blogs[id][f]]]]

\* getBlogById
getBlogById(id) ==
    IF id = InvalidId
      THEN [status |-> 400, message |-> "Invalid blog post ID format"]
    ELSE IF FindBlogById(id) = NoBlog
      THEN [status |-> 404, message |-> "Blog post not found"]
    ELSE [status |-> 200, message |-> ""]

\* router.get("/:id", getBlogById)
GetBlog(id) ==
    /\ listening
    /\ last' = [NoRequest EXCEPT !.route = "GET", !.id = id, !.at = now,
                  !.before = blogs, !.calls = 1, !.step = "load",
                  !.status = getBlogById(id).status,
                  !.message = getBlogById(id).message, !.sent = TRUE]
    /\ UNCHANGED <<users, userCount, blogs, blogCount, creator, issued, now, session, forwardsRejections, listening, probe, browser, home, running>>

\* protect, Blog.findById and the ownership check of a PUT or DELETE: the
\* handler answers 400, 403 or 404 at once, or goes on to its write
Begin(route, verb, header, id, body) ==
    /\ listening
    /\ Cardinality(running) < MaxRunning
    /\ UNCHANGED <<users, userCount, issued, now, session, forwardsRejections, probe, browser, home>>
    /\ LET p == protect(header) IN
       IF ~p.next THEN Rejected(route, header, p) /\ UNCHANGED running
       ELSE LET f == findOwned(p.user, id, verb) IN
            /\ UNCHANGED <<blogs, blogCount, creator, listening>>
            /\ running' = IF f.status # 0 THEN running
                          ELSE running \cup {[route |-> route, header |-> header,
                                              user |-> p.user, id |-> id,
                                              blog |-> f.blog, body |-> body]}
            /\ last' = [NoRequest EXCEPT !.route = route, !.header = header,
                          !.id = id, !.body = body, !.at = now,
                          !.known = Known(header), !.before = blogs,
                          !.user = p.user, !.calls = 1, !.step = "load",
                          !.status = f.status, !.message = f.message,
                          !.sent = (f.status # 0)]

BeginUpdate(header, id, body) == Begin("PUT", "update", header, id, body)
BeginDelete(header, id)       == Begin("DELETE", "delete", header, id, NoBody)

\* the rest of a handler that went on: its write and its response
Finish(h, result) ==
    /\ listening
    /\ h \in running
    /\ blogs' = result.blogs
    /\ running' = running \ {h}
    /\ UNCHANGED <<users, userCount, blogCount, creator, issued, now, session, forwardsRejections, listening, probe, browser, home>>
    /\ last' = [NoRequest EXCEPT !.route = h.route, !.header = h.header,
                  !.id = h.id, !.body = h.body, !.at = now,
                  !.known = Known(h.header), !.before = blogs,
                  !.user = h.user, !.calls = 1, !.step = "write",
                  !.status = result.status, !.message = result.message,
                  !.sent = TRUE,
                  !.wrote = (blogs' # blogs \/ users' # users)]

\* updateBlog from its assignments on
FinishUpdate(h, throwsOnMissing) ==
    /\ h.route = "PUT"
    /\ Finish(h, save(h.id, h.blog, assignBody(h.blog, h.body), throwsOnMissing))

\* deleteBlog from Blog.findByIdAndDelete on, which resolves whether or not
\* a document was there to delete
FinishDelete(h) ==
    /\ h.route = "DELETE"
    /\ Finish(h, [status |-> 200, message |-> "Blog post removed successfully",
                  blogs |-> [blogs EXCEPT ![h.id] = NoBlog]])

\* the race is over stored blogs: they are created without an image, and
\* updated with one that changes the title and the image and one that
\* validation turns down; every request carries a token the server issued
RaceBodies == {b \in Bodies : b.image # Undefined}
RacePosts  == {b \in Bodies : b.image = Undefined}
RaceHeaders == {Bearer(t) : t \in issued}

NextRace ==
    \/ \E profile \in Profiles, salt \in Salts : SignupUser(profile, salt)
    \/ \E header \in RaceHeaders, body \in RacePosts : PostBlog(header, body)
    \/ \E id \in BlogIds : GetBlog(id)
    \/ \E header \in RaceHeaders, id \in BlogIds, body \in RaceBodies :
         BeginUpdate(header, id, body)
    \/ \E header \in RaceHeaders, id \in BlogIds : BeginDelete(header, id)
    \/ \E h \in running, throwsOnMissing \in BOOLEAN : FinishUpdate(h, throwsOnMissing)
    \/ \E h \in running : FinishDelete(h)

SpecRace == Init /\ [][NextRace]_vars

\* ================================================================ claims
Mutations == {"PUT", "DELETE"}
Protected == {"POST", "PUT", "DELETE"}

\* the account the presented token names, and the blog a request addresses
Caller     == last.header.credential.id
Addressed  == last.id \in BlogIds /\ last.before[last.id] # NoBlog
TargetBlog == last.before[last.id]

\* what an update leaves in the document: the body's value where it gives one
Wanted(old, given) == IF Truthy(given) THEN given ELSE old
WantedImage == IF last.body.image # Undefined THEN last.body.image ELSE TargetBlog.image

\* C1: a PUT or DELETE on a blog owned by A is allowed and takes effect when
\* the caller is A, is answered 403 and changes nothing when the caller is
\* another account B, and changes nothing when no identity was authenticated
C1_OwnershipGuard ==
    /\ last.route \in Mutations /\ last.calls = 0 =>
         last.status = 401 /\ blogs = last.before
    /\ last.route \in Mutations /\ last.calls = 1 /\ Addressed =>
         IF Caller = TargetBlog.userId
           THEN /\ last.route = "DELETE" =>
                     last.status = 200 /\ blogs[last.id] = NoBlog
                /\ last.route = "PUT" /\ ValidImage(WantedImage) =>
                     /\ last.status = 200
                     /\ blogs[last.id].title = Wanted(TargetBlog.title, last.body.title)
                     /\ blogs[last.id].category = Wanted(TargetBlog.category, last.body.category)
                     /\ blogs[last.id].content = Wanted(TargetBlog.content, last.body.content)
                     /\ blogs[last.id].image = WantedImage
                /\ last.route = "PUT" /\ ~ValidImage(WantedImage) =>
                     last.status = 400 /\ blogs = last.before
           ELSE last.status = 403 /\ blogs = last.before

\* account B asked to update or delete a blog of account A and got 403
C1_Witness ==
    /\ last.route \in Mutations /\ last.calls = 1 /\ Addressed
    /\ Caller \in UserIds /\ users[Caller] # NoUser
    /\ TargetBlog.userId \in UserIds \ {Caller} /\ users[TargetBlog.userId] # NoUser
    /\ last.status = 403

\* C2: every stored blog's userId is the id of the account whose request
\* created it, whatever the update requests since then carried
C2_OwnerNeverReassigned ==
    \A b \in BlogIds : blogs[b] # NoBlog => blogs[b].userId = creator[b]

\* an update whose body names another owner went through
C2_Witness ==
    /\ last.route = "PUT" /\ last.status = 200 /\ Addressed
    /\ last.body.userId \in UserIds \ {TargetBlog.userId}
    /\ blogs[last.id].title # TargetBlog.title

\* C3: a blog created through POST /api/blogs is stored with the id (and the
\* name) of the account the presented token names, whatever userId or
\* authorName the body carries
C3_CreateOwnerIsCaller ==
    last.route = "POST" /\ last.status = 201 =>
        /\ last.created \in BlogIds
        /\ blogs[last.created].userId = Caller
        /\ users[Caller] # NoUser
        /\ blogs[last.created].authorName = users[Caller].name

\* a blog was created from a body that names another account as its owner
C3_Witness ==
    /\ last.route = "POST" /\ last.status = 201
    /\ last.body.userId \in UserIds \ {Caller}
    /\ last.body.authorName = "Mallory"
    /\ blogs[last.created].userId = Caller

\* ------------------------------------------------ the presented credential
Token == last.header.credential
SentBearer == last.header.present /\ last.header.prefix = "Bearer"

\* the signature is the server's signature over the token's own payload
Authentic(tok) ==
    /\ tok.parts = 3
    /\ tok.sig = [id |-> tok.id, iat |-> tok.iat, exp |-> tok.exp,
                  key |-> JWT_SECRET, bit |-> 0]

\* why a request carries no usable credential
MissingHeader   == ~last.header.present
MalformedToken  == SentBearer /\ Token.parts = 1
BadSignature    == SentBearer /\ Token.parts = 3 /\ ~Authentic(Token)
ExpiredToken    == SentBearer /\ Authentic(Token) /\ last.at >= Token.exp
AccountNotFound == SentBearer /\ Authentic(Token) /\ last.at < Token.exp /\ ~last.known

NoCredential ==
    LET p == protect(NoAuthorization) IN errorHandler(p.status, p.error)

\* C5: a request whose Authorization header is present but is not
\* "Bearer <token>" (another scheme, or Bearer with no token) gets the same
\* status and message as a request without the header
C5_MalformedPrefixAsAbsent ==
    /\ last.route \in Protected /\ last.sent /\ last.header.present
    /\ last.header.prefix # "Bearer" \/ Token = NoToken
    => last.status = NoCredential.status /\ last.message = NoCredential.message

\* the response to a request whose token does not parse
InvalidCredential ==
    LET p == protect(Bearer(Garbage)) IN errorHandler(p.status, p.error)

\* C6: a malformed token, an expired token, a bad signature and a valid
\* token of a missing account get the same status 401 and the same message;
\* the reason appears only in what the server logs
C6_InvalidCredentialUniform ==
    /\ last.route \in Protected => last.log # last.message
    /\ last.route \in Protected
         /\ (MalformedToken \/ BadSignature \/ ExpiredToken \/ AccountNotFound) =>
           /\ last.status = 401
           /\ last.status = InvalidCredential.status
           /\ last.message = InvalidCredential.message
           /\ last.sent = forwardsRejections
           /\ MalformedToken  => last.log = "jwt malformed"
           /\ BadSignature    => last.log = "invalid signature"
           /\ ExpiredToken    => last.log = "jwt expired"
           /\ AccountNotFound => last.log = "Not authorized, user not found"

\* a token with one signature bit flipped was rejected with the generic message
C6_Witness ==
    /\ last.route \in Protected /\ BadSignature
    /\ FlipBit(Token) \in issued
    /\ last.status = 401 /\ last.log = "invalid signature"
    /\ last.message = "Not authorized, token failed or expired"

\* C7: for every account id s the token generateToken returns for s
\* verifies at the moment of issuance and yields s; the token returned by a
\* signup or login yields the id of the account that signed up or logged in
C7_VerifyIssue ==
    /\ \A s \in UserIds :
         LET v == jwtVerify(generateToken(s, now), JWT_SECRET, now)
         IN  v.ok /\ v.id = s
    /\ last.route \in {"SIGNUP", "LOGIN"} /\ last.status \in {200, 201} =>
         LET tok == generateToken(last.user._id, last.at)
             v   == jwtVerify(tok, JWT_SECRET, last.at)
         IN  tok \in issued /\ v.ok /\ v.id = last.user._id

\* a login has just returned a token, and protect accepts it
C7_Witness ==
    /\ last.route = "LOGIN" /\ last.status = 200 /\ last.at = now /\ now > 0
    /\ session = generateToken(last.user._id, now)
    /\ protect(Bearer(session)).next
    /\ protect(Bearer(session)).user._id = last.user._id

\* C8: a token issued at t expires at t + 30 days; on a protected route it
\* is accepted at every time before that while its account exists, and
\* rejected with 401 from then on
C8_ExpiresAfterThirtyDays ==
    /\ \A tok \in issued : tok.exp = tok.iat + 30
    /\ last.route \in Protected /\ SentBearer /\ Token \in issued =>
         /\ last.at < Token.iat + 30 /\ last.known => last.calls = 1
         /\ last.at >= Token.iat + 30 => last.calls = 0 /\ last.status = 401

\* a token of an existing account was rejected after its expiry had passed
C8_Witness ==
    /\ last.route \in Protected /\ SentBearer /\ Token \in issued
    /\ last.known /\ last.at > Token.exp
    /\ last.calls = 0 /\ last.status = 401 /\ last.log = "jwt expired"

\* C9: protect attaches account X only when the request carries a token
\* generateToken returned for X; a token whose signature was altered or was
\* made with another secret authenticates nobody
C9_OnlyServerTokensAuthenticate ==
    last.route \in Protected =>
        /\ last.user # NoUser =>
             /\ Token \in issued
             /\ \E t \in 0..last.at : Token = generateToken(last.user._id, t)
        /\ Token.parts = 3 /\ (Token.sig.bit # 0 \/ Token.sig.key # JWT_SECRET) =>
             last.user = NoUser /\ last.calls = 0

\* an unexpired token for an existing account, signed with another secret,
\* was rejected
C9_Witness ==
    /\ last.route \in Protected /\ SentBearer /\ Token.parts = 3
    /\ Token.sig.key = OtherSecret /\ last.known /\ last.at < Token.exp
    /\ last.user = NoUser /\ last.calls = 0 /\ last.status = 401

\* protect lets a request with this token through
Accepts(tok) == protect(Bearer(tok)).next

\* C10: after any sequence of signups, logins, logouts and requests, protect
\* accepts every token the server has issued whose expiry has not passed and
\* whose account exists, the earlier tokens of an account that was issued a
\* newer one included
C10_NoRevocation ==
    \A tok \in issued :
        now < tok.exp /\ users[tok.id] # NoUser =>
            /\ Accepts(tok)
            /\ protect(Bearer(tok)).user._id = tok.id

\* after a later login of the same account and a logout, a request with the
\* earlier token was accepted
C10_Witness ==
    /\ session = NoToken
    /\ last.route \in Protected /\ SentBearer /\ Token \in issued /\ last.calls = 1
    /\ \E newer \in issued :
         newer.id = Token.id /\ newer.iat > Token.iat /\ newer.iat <= last.at

\* ------------------------------------------------------------------- C11
\* the account a response or a request's identity describes
Described == IF last.user._id \in UserIds THEN users[last.user._id] ELSE NoUser

\* C11: in every reachable state the identity attached to a request (req.user)
\* and the account summary of a signup or login response carry no password
\* hash: the password field of either is absent
C11_HashNeverExposed ==
    last.user.password = <<>>

\* a protected handler ran for an account whose stored document holds a hash
C11_Witness ==
    /\ last.route \in Protected /\ last.calls = 1
    /\ Described # NoUser
    /\ Described.password # <<>>
    /\ last.user = [Described EXCEPT !.password = <<>>]

\* ------------------------------------------------------------------- C12
\* two emails are the same when they differ in letter case only
CaseFold(e) == IF e = "A@X.COM" THEN "a@x.com" ELSE e
SameEmail(d, e) == CaseFold(d) = CaseFold(e)

RegisteredIn(accounts, email) ==
    \E u \in UserIds : accounts[u] # NoUser /\ SameEmail(accounts[u].email, email)

UniqueEmails ==
    \A u, v \in UserIds :
        users[u] # NoUser /\ users[v] # NoUser /\ SameEmail(users[u].email, users[v].email)
          => u = v

\* C12: a registration whose email equals, ignoring letter case, the email of
\* an account registered when it arrives fails (400), issues no token and
\* leaves every stored account as it was; and in every reachable state no two
\* stored accounts have the same email under case-insensitive comparison
C12_DuplicateEmailRejected ==
    /\ last.route = "SIGNUP" /\ RegisteredIn(last.accounts, last.email)
         => /\ last.status = 400 /\ last.token = NoToken
            /\ users = last.accounts
    /\ UniqueEmails

\* the second registration used the first one's email in another letter case
\* and was turned down as a duplicate
C12_Witness ==
    /\ last.route = "SIGNUP" /\ last.status = 400
    /\ last.message = "Email already exists"
    /\ \E u \in UserIds :
         /\ users[u] # NoUser
         /\ users[u].email # last.email
         /\ SameEmail(users[u].email, last.email)

\* ------------------------------------------------------------------- C13
\* the registration just handled had an empty name, a malformed email or a
\* password of fewer than 6 characters
EmptyName      == last.name \in {"", " "}
MalformedEmail == last.email \in {"", "c-at-x.com"}
ShortPassword  == Len(last.password) < 6
InvalidRegistration == EmptyName \/ MalformedEmail \/ ShortPassword

\* C13: a registration with an empty name, a malformed email or a password
\* shorter than 6 characters is answered 400, persists no account and issues
\* no token; any other registration of an email not yet registered, a
\* 6-character password included, is accepted (201) and its account stored
C13_RegistrationValidated ==
    last.route = "SIGNUP" =>
      /\ InvalidRegistration
           => /\ last.status = 400 /\ last.token = NoToken
              /\ users = last.accounts
      /\ ~InvalidRegistration /\ ~RegisteredIn(last.accounts, last.email)
           => /\ last.status = 201
              /\ last.user._id \in UserIds
              /\ last.accounts[last.user._id] = NoUser
              /\ users[last.user._id] # NoUser

\* a 5-character password was turned down while the account registered with
\* a 6-character password is stored
C13_Witness ==
    /\ last.route = "SIGNUP" /\ last.status = 400
    /\ Len(last.password) = 5 /\ ~EmptyName /\ ~MalformedEmail
    /\ \E u \in UserIds : users[u] # NoUser /\ users[u].email = "b@x.com"

\* ------------------------------------------------------------------- C14
\* a salted hash: a salt the hasher drew, no plaintext (one part) and no
\* missing value (no part)
IsSaltedHash(v) == Len(v) = 2 /\ v[1] \in Salts \cup AccountSalts

\* C14: every stored account holds a salted hash in its password field, never
\* the plaintext, after its creation and after every later save; and a save
\* that does not modify the password leaves the stored hash as it was
C14_OnlyHashesStored ==
    /\ \A u \in UserIds : users[u] # NoUser => IsSaltedHash(users[u].password)
    /\ last.route = "SAVE" /\ last.path # "password"
         => users[last.account].password = last.stored
    /\ last.route = "SAVE" /\ last.path = "password" /\ last.status = 200
         => users[last.account].password # <<last.value>>

\* an account was saved with a new name and its hash is the one stored before
C14_Witness ==
    /\ last.route = "SAVE" /\ last.path = "name" /\ last.status = 200
    /\ users[last.account].name = last.value
    /\ IsSaltedHash(last.stored)
    /\ users[last.account].password = last.stored

\* ------------------------------------------------------------------- C15
\* the login just handled named an email no account has, or a registered
\* email with a password that is not the account's
UnknownEmail  == ~RegisteredIn(users, last.email)
WrongPassword ==
    \E u \in UserIds :
        /\ users[u] # NoUser /\ SameEmail(users[u].email, last.email)
        /\ users[u].password[2] # last.password

\* C15: a login with a registered email and a wrong password and a login
\* with an email that is not registered get the same response: status 401,
\* the one message "Invalid email or password", no token and no account data
C15_LoginFailuresIdentical ==
    last.route = "LOGIN" /\ (UnknownEmail \/ WrongPassword)
      => /\ last.status = 401
         /\ last.message = "Invalid email or password"
         /\ last.token = NoToken
         /\ last.user = NoUser

\* a registered email was presented with a wrong password
C15_Witness ==
    /\ last.route = "LOGIN" /\ WrongPassword /\ ~UnknownEmail
    /\ last.status = 401

\* ------------------------------------------------------------------- C16
\* the account a successful login or registration answered for
Holder == last.user._id

\* C16: a login returns a token only when an account with the given email,
\* compared without regard to letter case, is stored and the given password
\* is the one its hash was made from; the token is one the server signed and
\* its subject is that account's id.  The token a registration returns has
\* the id of the account it just created as its subject.
C16_TokenForVerifiedAccount ==
    /\ last.route \in {"LOGIN", "SIGNUP"}
         => (last.token # NoToken <=> last.status \in {200, 201})
    /\ last.route \in {"LOGIN", "SIGNUP"} /\ last.token # NoToken
         => /\ Holder \in UserIds /\ users[Holder] # NoUser
            /\ SameEmail(users[Holder].email, last.email)
            /\ last.token = jwtSign(Holder, last.at, JWT_SECRET)
            /\ jwtVerify(last.token, JWT_SECRET, last.at).id = Holder
            /\ last.token \in issued
    /\ last.route = "LOGIN" /\ last.token # NoToken
         => users[Holder].password =
              bcryptHash(last.password, users[Holder].password[1])
    /\ last.route = "SIGNUP" /\ last.token # NoToken
         => last.accounts[Holder] = NoUser

\* a login that spelled the registered email in capitals got that account's token
C16_Witness ==
    /\ last.route = "LOGIN" /\ last.status = 200
    /\ last.email = "A@X.COM" /\ users[Holder].email = "a@x.com"
    /\ last.token.id = Holder
    /\ users[Holder].password[2] = last.password

\* ------------------------------------------------------------------- C17
\* C17: for all passwords p and q and all salts the hasher draws, q verifies
\* against a hash of p exactly when q = p, without an error; the two hashes
\* of the same p differ, and p verifies against both
C17_VerifyIffSamePassword ==
    probe.fn = "hash" =>
      /\ probe.verifyFirst.error = "" /\ probe.verifySecond.error = ""
      /\ probe.verifyFirst.value  <=> probe.q = probe.p
      /\ probe.verifySecond.value <=> probe.q = probe.p
      /\ probe.first # probe.second

\* ------------------------------------------------------------------- C18
\* the stored value is the hash of some password
WellFormedHash(hashed) == Len(hashed) = 2 /\ hashed[1] \in HasherSalts

\* C18: password verification fails closed: for a wrong password (one that
\* differs from the hashed one in the bytes bcrypt reads) and for a malformed
\* or missing hashed form it returns false, and it never throws
C18_VerifyFailsClosed ==
    probe.fn = "compare" =>
      /\ probe.out.error = ""
      /\ ~WellFormedHash(probe.hashed) => ~probe.out.value
      /\ WellFormedHash(probe.hashed) /\ probe.hashed[2] # bcryptKey(probe.candidate)
           => ~probe.out.value

\* ------------------------------------------------------------------- C19
\* C19: an authenticated update or delete whose id names no stored blog is
\* never answered 403, whoever the caller is: a well-formed id gets 404
\* "Blog post not found" (an id that is no ObjectId gets 400), and nothing
\* is changed
C19_MissingBlogIsNotFound ==
    last.route \in Mutations /\ last.calls = 1 /\ ~Addressed
      => /\ last.status # 403
         /\ last.id \in BlogIds
              => last.status = 404 /\ last.message = "Blog post not found"
         /\ blogs = last.before

\* an account that never owned the blog addressed it after it was deleted
C19_Witness ==
    /\ last.route \in Mutations /\ last.calls = 1
    /\ last.id \in BlogIds /\ last.before[last.id] = NoBlog
    /\ creator[last.id] \notin {0, Caller}
    /\ last.status = 404

\* ------------------------------------------------------------------- C20
Exceptional(err) == err \in {StorageDown, NoSecret}

\* C20: an exceptional error (storage unavailable, missing signing secret)
\* is surfaced as status 500, and unless the server runs in development mode
\* the response holds neither the stack trace nor the internal error message
\* or error name
C20_ExceptionalErrorsOpaque ==
    probe.fn = "error" /\ Exceptional(probe.err)
      => /\ probe.status = 500
         /\ probe.env # "development"
              => /\ probe.body.stack \in {Null, Undefined}
                 /\ probe.body.message # probe.err.message
                 /\ probe.body.error # probe.err.name

\* ------------------------------------------------------------------- C21
\* the failure carries a message the server supplied
CarriesMessage(reply) ==
    /\ reply.response # NoResponse
    /\ reply.response.message # Undefined
    /\ reply.response.message # ""

Called == ServiceTable(probe.service)[probe.name]

\* C21: a call of a frontend service function issues exactly one HTTP
\* request, to that function's endpoint, and then either returns the
\* response data unchanged and throws nothing, or returns nothing and throws
\* an Error whose message is the server's message, or the function's fixed
\* default message when the failure carries none
C21_ServiceCallContract ==
    probe.fn = "service"
      => /\ Len(probe.out.requests) = 1
         /\ probe.out.requests[1].method = Called.method
         /\ probe.out.requests[1].url =
              ServiceUrl(probe.service, probe.prod) \o Called.path
         /\ probe.reply.ok
              => /\ probe.out.returned
                 /\ probe.out.data = probe.reply.data
                 /\ probe.out.thrown = Undefined
         /\ ~probe.reply.ok
              => /\ ~probe.out.returned
                 /\ probe.out.thrown =
                      IF CarriesMessage(probe.reply)
                        THEN probe.reply.response.message
                        ELSE Called.fallback

\* changePassword was rejected with the server's message, which it threw
C21_Witness ==
    /\ probe.fn = "service" /\ probe.name = "changePassword"
    /\ ~probe.reply.ok
    /\ probe.reply.response.message = "Not authorized, no token provided"
    /\ probe.out.thrown = "Not authorized, no token provided"
    /\ ~probe.out.returned

\* ------------------------------------------------------------------- C22
Mutating == {"createBlog", "updateBlog", "deleteBlog"}

\* C22: a createBlog, updateBlog or deleteBlog request the frontend sends
\* while a user is logged in carries Authorization: Bearer <that user's
\* token>; a request sent while nobody is logged in carries no token; and no
\* request carries the token of anyone but the user logged in when it is sent
C22_RequestsCarryCurrentToken ==
    browser.sent.fn # "NONE"
      => /\ browser.sent.fn \in Mutating /\ Truthy(browser.sent.user.token)
              => browser.sent.authorization = "Bearer " \o browser.sent.user.token
         /\ ~Truthy(browser.sent.user.token)
              => browser.sent.authorization = Absent
         /\ browser.sent.authorization
              \in {Absent, "Bearer " \o browser.sent.user.token}

\* ------------------------------------------------------------------- C23
\* no signupUser or loginUser call is in flight and React has rendered
Settled == browser.open /\ browser.pending = {} /\ ~browser.stale

\* localStorage holds a "blogUser" entry with a token
HoldsToken(entry) == entry.kind = "json" /\ Truthy(entry.data.token)

\* C23: once the calls have settled, isAuthenticated is true exactly when
\* localStorage holds a blogUser entry with a token, and then the axios
\* default Authorization header is Bearer <that token>, else there is no
\* such header; logoutUser leaves no user, no entry and no header; a failed
\* login or signup leaves the three as they were
C23_SessionCopiesAgree ==
    /\ Settled
         => /\ isAuthenticated(browser) <=> HoldsToken(browser.storage)
            /\ HoldsToken(browser.storage)
                 => /\ browser.header = "Bearer " \o browser.storage.data.token
                    /\ browser.user.token = browser.storage.data.token
            /\ ~HoldsToken(browser.storage) => browser.header = Absent
    /\ browser.event = "logout"
         => /\ browser.user = NoAccount
            /\ browser.storage = NoEntry
            /\ browser.header = Absent
    /\ browser.event \in {"login-failed", "signup-failed"}
         => <<browser.user, browser.storage, browser.header>> = browser.was

\* a login failed while a user was logged in, and the session is as before
C23_Witness ==
    /\ Settled
    /\ browser.event = "login-failed"
    /\ isAuthenticated(browser)
    /\ browser.header = "Bearer " \o browser.user.token
    /\ browser.was[1] = browser.user

\* ------------------------------------------------------------------- C24
\* C24: every blog listed on the My Blogs page of the logged-in user was
\* created by that user: its userId is the user's id
C24_MyBlogsAreMine ==
    probe.fn = "myBlogs"
      => \A i \in 1..Len(probe.out.blogsData.blogs) :
            probe.out.blogsData.blogs[i].doc.userId = probe.user._id

\* ------------------------------------------------------------------- C25
\* what is on screen is what React rendered for the present state
Rendered == browser.open /\ ~browser.stale

\* C25: the page of a protected path is on screen only for an authenticated
\* user; an unauthenticated visitor who asks for a protected path is shown
\* the login page at /login with the path asked for saved; and a login that
\* succeeds on the login page leads to the saved path, or to / when none is
\* saved, and shows its page
C25_ProtectedRoutesGuarded ==
    Rendered
      => /\ browser.shown \in ProtectedPages => isAuthenticated(browser)
         /\ ( /\ browser.event \in {"open", "navigate"}
              /\ browser.target \in ProtectedPaths
              /\ ~isAuthenticated(browser) /\ ~browser.isLoading )
              => /\ browser.location = "/login"
                 /\ browser.from = browser.target
                 /\ browser.shown = "LoginPage"
         /\ ( browser.event = "login-ok" /\ browser.at[1] = "/login" )
              => /\ browser.location =
                      (IF browser.at[2] # "" THEN browser.at[2] ELSE "/")
                 /\ browser.shown = Page(browser.location)

\* a visitor sent from /my-blogs to the login page has logged in and is
\* shown the My Blogs page
C25_Witness ==
    /\ Rendered
    /\ browser.event = "login-ok"
    /\ browser.at = <<"/login", "/my-blogs">>
    /\ browser.location = "/my-blogs"
    /\ browser.shown = "MyBlogsPage"
    /\ isAuthenticated(browser)

\* ------------------------------------------------------------------- C26
\* the request issued last has another filter than the one issued before it
FilterChanged ==
    /\ home.previous # NoFetch
    /\ \/ home.issued.category # home.previous.category
       \/ home.issued.authorName # home.previous.authorName

\* C26: a blog fetch issued with a filter (category or author name) other
\* than that of the fetch before it asks for page 1
C26_FilterChangeResetsPage ==
    FilterChanged => home.issued.page = 1

\* ------------------------------------------------------------------- C27
\* protect turned the last request down
RejectedByProtect ==
    /\ last.route \in Protected /\ last.calls = 0
    /\ MissingHeader \/ MalformedToken \/ BadSignature \/ ExpiredToken
         \/ AccountNotFound

\* C27: after a request that the auth middleware rejected (missing header,
\* malformed or expired token, unknown account) the server still accepts
\* requests, and the rejection was answered rather than left to the
\* process-level unhandledRejection handler, which closes the server
C27_RejectionKeepsServing ==
    RejectedByProtect => listening /\ last.sent

\* C28: a create, update or delete request that ends with status 400, 401,
\* 403 or 404 leaves the blog collection and the account collection exactly
\* as they were before the request, whether protect or the handler ended it
ErrorStatuses == {400, 401, 403, 404}
C28_ErrorsLeaveStorageUnchanged ==
    (last.route \in Protected /\ last.status \in ErrorStatuses) => ~last.wrote

\* the owner's update of a stored blog was turned down by validation (400)
C28_Witness ==
    /\ last.route = "PUT" /\ last.status = 400 /\ last.calls = 1
    /\ last.id \in BlogIds /\ last.before[last.id] # NoBlog
    /\ last.before[last.id].userId = last.user._id
    /\ ~last.wrote

\* C29: a completed delete is final.  A blog that was created and was gone
\* before the latest step of a blog request is still gone after it, so the
\* save of an update that loaded the blog before the delete never re-creates
\* it; and a read, update or delete that looks the blog up after the delete
\* is answered 404.
BlogRoutes == {"GET", "POST", "PUT", "DELETE"}
GoneBefore(id) ==
    /\ last.route \in BlogRoutes
    /\ creator[id] # 0 /\ last.created # id
    /\ last.before[id] = NoBlog
C29_DeleteIsFinal ==
    \A id \in BlogIds :
      GoneBefore(id) =>
        /\ blogs[id] = NoBlog
        /\ (last.id = id /\ last.step = "load") => last.status = 404

\* an update that loaded the blog before its delete completed has saved
\* after it: the save found no document, and the blog is still gone
C29_Witness ==
    /\ last.route = "PUT" /\ last.step = "write" /\ last.id \in BlogIds
    /\ creator[last.id] # 0 /\ last.before[last.id] = NoBlog
    /\ last.status = 500
    /\ blogs[last.id] = NoBlog

\* C30: once no fetch is outstanding and the last one has not failed, the
\* list on screen is the response to the request issued last, which is the
\* one for the present category, author name and page
C30_LatestRequestWins ==
    ( home.mounted /\ home.inflight = {} /\ home.error = "<null>" )
      => /\ home.blogsData.for = home.issued
         /\ home.issued = [category |-> home.category,
                           authorName |-> home.authorName,
                           page |-> home.currentPage]

====
